---- MODULE Spec2Model ----
(***************************************************************************)
(* Alpha Sentinel dashboard (src/dashboard/app.js): the client-side        *)
(* synchronisation and rendering engine as a state machine.                *)
(*                                                                         *)
(* One page (document) is modelled from the end of its DOMContentLoaded    *)
(* handler until it is unloaded.  Every await of fetchApi is a suspension  *)
(* point: the request sits in `net` until the backend has served it and    *)
(* its response is delivered, and the rest of the async function runs in   *)
(* the Deliver step.  Responses are delivered in any order.                *)
(***************************************************************************)
EXTENDS Integers, Sequences, FiniteSets, TLC

\* ------------------------------------------------------------------ bounds
\* Requests (awaited fetchApi calls) in flight at once.
MaxInflight == 2
\* Assignments of window.location.href by logout() that are counted.
MaxNav == 2
\* Timers the page can have pending at once.
MaxTimers == 2
\* Steps of the clock in the 400 ms of the debounce delay.
DebounceSteps == 4
\* The largest volume and the largest open interest of an alert rendered.
MaxVolume == 3
MaxOI == 4
\* The longest score_history of a monitored contract rendered.
MaxHist == 41

\* ---------------------------------------------------------------- universe
Keys == {"A", "B"}                \* contract_key values known to the backend
Layouts == {"cards", "table"}     \* compact and tabular presentation
Pages == {"index", "monitor"}     \* location.pathname of the document
NoKey == "-"
Symbols == {"", "S", "SP"}        \* values of the symbol filter

\* The debounce delay of the symbol filter (line 736), and one step of the
\* clock.
DebounceMs == 400
StepMs == DebounceMs \div DebounceSteps

VARIABLES
    path,        \* location.pathname: which page this document is
    hasRecent,   \* the page has a #recent-alerts-list element
    domFirst,    \* the layout whose [data-ck] buttons come first in the document
    token,       \* localStorage holds sentinel_token
    navCount,    \* how often logout() has assigned window.location.href
    unloaded,    \* the document is gone (navigation committed)
    uncaught,    \* an async handler has ended in an uncaught TypeError
    sessionOk,   \* backend: the credential is still accepted
    catalog,     \* backend: the contracts it has alerts for
    watched,     \* backend: the watch list (contracts monitored)
    net,         \* awaited requests in issue order
    alerts,      \* [Layouts -> view] of #alerts-cards / #alerts-table tbody
    monitors,    \* [Layouts -> view] of #monitor-cards / #monitor-tbody
    recent,      \* view of #recent-alerts-list
    objAoi,      \* is_aoi of the item objects held by the rendered closures
    detailItem,  \* _detailItem
    backdrop,    \* #detail-backdrop has class open
    scrollLock,  \* document.body.style.overflow = 'hidden'
    cta,         \* #detail-cta: [disabled, mode]
    symbol,      \* value of the #filter-symbol input
    listener,    \* the event #filter-symbol is listened to for: "input", "change"
    committed,   \* value of #filter-symbol at its last change event
    debounce,    \* the handle the input listener keeps (0: none yet)
    timers,      \* pending timeouts of the listener: handle -> ms left
    sinceInput,  \* ms since the last input event, counted up to the delay
    probe,       \* one call of fetchApi: what fetch does, what the caller gets
    healthCalls, \* runs of updateHealth suspended at their Promise.all
    healthTs,    \* #health-ts: "static" or "updated"
    uwBadge,     \* #uw-badge: "static", "hidden" or "shown"
    loginForm,   \* the login form: its submit button and its error line
    homeNav,     \* how often the login handler has assigned location.href
    currentSortScore, \* currentSortScore (line 6): "", "desc" or "asc"
    sortIcon,    \* #sort-icon-score: its glyph and whether it is lit
    mobileSort,  \* #mobile-sort-score has class active (aria-pressed true)
    currentTypeFilter, \* currentTypeFilter (line 5): the data-type last clicked
    typeActive,  \* the .type-filter-btn elements that have class active
    domState,    \* DOMContentLoaded: "loading", "redirected" or "ran"
    interval,    \* the setInterval of line 804 has been started
    item,        \* the item object handed to the renderers
    shown        \* what the renderers have written for it

filterVars == <<symbol, listener, committed, debounce, timers, sinceInput>>

apiVars == <<probe>>
healthVars == <<healthCalls, healthTs, uwBadge>>
loginVars == <<loginForm, homeNav>>
sortVars == <<currentSortScore, sortIcon, mobileSort, currentTypeFilter, typeActive>>
bootVars == <<domState, interval>>
renderVars == <<item, shown>>
moreVars == <<sortVars, bootVars, renderVars>>

\* What the handlers of the dashboard lists leave alone.
sideVars == <<filterVars, apiVars, healthVars, loginVars, moreVars>>

vars == <<path, hasRecent, domFirst, token, navCount, unloaded, uncaught,
          sessionOk, catalog, watched, net, alerts, monitors, recent, objAoi,
          detailItem, backdrop, scrollLock, cta, sideVars>>

\* ------------------------------------------------------------- data shapes
\* A panel as displayed.  st: "static" (markup as shipped), "loading",
\* "error", "empty", "items", and "blank" (a container emptied and given
\* no child).  keys: the contracts listed; aoi: those drawn
\* as watched (and whose onclick passes currentActive = 1); disabled: keys
\* whose [data-ck] button is disabled; stale: the content was written by the
\* response of a request that a later request of the same feed had
\* superseded before it arrived; seq: the contracts of the alert list or
\* the monitor list in the order their cards and rows were appended.
View(st, keys, aoi, stale) ==
    [st |-> st, keys |-> keys, aoi |-> aoi, disabled |-> {}, stale |-> stale,
     seq |-> << >>]

StaticView == View("static", {}, {}, FALSE)
LoadingView == View("loading", {}, {}, FALSE)

\* _detailItem = null
NoItem == [key |-> NoKey, aoi |-> FALSE, live |-> "none"]

\* A response as fetchApi's caller sees the exchange.  kind: "pending" (not
\* served yet), "ok" (JSON with items), "body" (JSON without items, e.g. an
\* error status with a JSON body), "fail" (transport error or a body that
\* is not JSON), "401".  seq: the items of an alert or monitor response in
\* the order of its items array.
NoResp == [kind |-> "pending", keys |-> {}, aoi |-> {}, seq |-> << >>]
Resp(kind, keys, aoi) == [kind |-> kind, keys |-> keys, aoi |-> aoi, seq |-> << >>]

\* An awaited request.  fn: the async function suspended on it; ck, was:
\* its locals (contract key; currentActive / wasAoi); via: the control whose
\* click started it (a layout for a star or remove button, "cta" for the
\* overlay's button); auth: the request carries the bearer credential; sup:
\* a later request of the same feed has been issued since; q: the query
\* parameters besides limit.
NoParams == [symbol |-> "", type |-> "", sort_score |-> ""]

Req(fn, ck, was, via, auth) ==
    [fn |-> fn, ck |-> ck, was |-> was, via |-> via, auth |-> auth,
     q |-> NoParams, sup |-> FALSE, res |-> NoResp]

FeedFns == {"loadAlerts", "loadMonitors", "loadTopRecent"}
ToggleFns == {"toggleAOI", "detailCtaClick"}

Null == [kind |-> "null", keys |-> {}, aoi |-> {}, seq |-> << >>]

\* ------------------------------------------------------------------- auth
\* A credential read once and kept.
CachedToken == TRUE

\* getToken() (line 9) as a truth value: `if (token)` in fetchApi.
getToken == token

\* logout() (lines 11-14): the credential after it, and the count of
\* assignments of window.location.href.
logoutToken == FALSE
logoutNav(n) == n + 1

\* ---------------------------------------------------------------- fetchApi
\* What fetch() and res.json() do on one call: fetch rejects (net "error"),
\* or resolves to a response with a status whose body parses as JSON or
\* does not.
Statuses == {200, 204, 401, 403, 404, 500}
NetError == [net |-> "error", status |-> 0, json |-> FALSE]
Outcomes ==
    {NetError} \cup {[net |-> "ok", status |-> st, json |-> j] : st \in Statuses, j \in BOOLEAN}

LoginPage == "login"

\* A handler that lets the exception through.
Rethrow(t) == t

\* A try block whose 401 branch does not look at the pathname.
TryAnyPage(o, pathname) ==
    IF o.net = "error" THEN [threw |-> TRUE, logout |-> FALSE, ret |-> "none"]
    ELSE IF o.status = 401 THEN [threw |-> FALSE, logout |-> TRUE, ret |-> "null"]
    ELSE IF ~o.json THEN [threw |-> TRUE, logout |-> FALSE, ret |-> "none"]
    ELSE [threw |-> FALSE, logout |-> FALSE, ret |-> "body"]

\* The try block (lines 52-54): threw: control leaves it by an exception;
\* logout: logout() was called; ret: what it returns, null or the body.
fetchApiTry(o, pathname) ==
    IF o.net = "error" THEN [threw |-> TRUE, logout |-> FALSE, ret |-> "none"]
    ELSE IF o.status = 401 /\ pathname # LoginPage
         THEN [threw |-> FALSE, logout |-> TRUE, ret |-> "null"]
    ELSE IF ~o.json THEN [threw |-> TRUE, logout |-> FALSE, ret |-> "none"]
    ELSE [threw |-> FALSE, logout |-> FALSE, ret |-> "body"]

\* The catch clause (line 55).
fetchApiCatch(t) == [threw |-> FALSE, logout |-> t.logout, ret |-> "null"]

\* fetchApi (lines 47-56).
fetchApiHttp(o, pathname) ==
    LET t == fetchApiTry(o, pathname)
    IN  IF t.threw THEN fetchApiCatch(t) ELSE t

\* The three kinds of response the feeds can tell apart, as outcomes.
OutcomeOf(r) ==
    IF r.kind = "fail" THEN NetError
    ELSE [net |-> "ok", status |-> IF r.kind = "401" THEN 401 ELSE 200, json |-> TRUE]

\* fetchApi line 53 calls logout() on response r.
fetchApiLogsOut(r) == fetchApiHttp(OutcomeOf(r), path).logout

\* What fetchApi returns to its caller for response r: null (lines 53, 55)
\* or the parsed body (line 54).
fetchApi(r) == IF fetchApiHttp(OutcomeOf(r), path).ret = "null" THEN Null ELSE r

\* data?.items is truthy (an array, also an empty one).
hasItems(d) == d.kind = "ok"

\* ---------------------------------------------------------- request queue
RemoveAt(s, i) == [j \in 1..(Len(s) - 1) |-> IF j < i THEN s[j] ELSE s[j + 1]]

\* A new awaited request; the requests of the same feed already in flight
\* are superseded from now on.
Issue(n, r) ==
    Append([j \in DOMAIN n |->
               IF r.fn \in FeedFns /\ n[j].fn = r.fn
               THEN [n[j] EXCEPT !.sup = TRUE] ELSE n[j]],
           r)

\* ------------------------------------------------------------ loadAlerts
\* Lines 326-329: the containers exist and the page is the alert page.
loadAlertsRuns == path = "index"

\* A load that writes the placeholder whatever its mode.
PlaceholderAlways(v, isBackground) ==
    IF path = "index" THEN [l \in Layouts |-> LoadingView] ELSE v

\* Lines 334-337: the loading placeholder of a foreground load.
loadAlertsPlaceholder(v, isBackground) ==
    IF loadAlertsRuns /\ ~isBackground THEN [l \in Layouts |-> LoadingView] ELSE v

\* Lines 339-343: the symbol parameter is the input's value, type the value
\* of currentTypeFilter and sort_score the value of currentSortScore when
\* the function runs (an empty value adds no parameter).
loadAlertsParams ==
    [symbol |-> symbol, type |-> currentTypeFilter, sort_score |-> currentSortScore]

\* Lines 339-345: the request, with parameters q.
loadAlertsRequestWith(n, tok, q) ==
    IF loadAlertsRuns
    THEN Issue(n, [Req("loadAlerts", NoKey, FALSE, NoKey, tok) EXCEPT !.q = q])
    ELSE n

loadAlertsRequest(n, tok) == loadAlertsRequestWith(n, tok, loadAlertsParams)

\* The table-only script (src/unnamed/part_001), which a page runs when
\* listener = "change".  Lines 97-99: the placeholder of a foreground load
\* goes into the tbody, the cards are not touched.
tableOnlyPlaceholder(v, isBackground) ==
    IF loadAlertsRuns /\ ~isBackground THEN [v EXCEPT !["table"] = LoadingView] ELSE v

\* Lines 102-107: symbol is the only parameter besides limit.
tableOnlyParams == [NoParams EXCEPT !.symbol = symbol]

\* Lines 109-152: the tbody shows the error message, or is emptied and
\* gets one row per item; there is no message for an empty list.
tableOnlyRender(v, data, sup) ==
    [v EXCEPT !["table"] =
        IF ~hasItems(data) THEN View("error", {}, {}, sup)
        ELSE IF data.keys = {} THEN View("blank", {}, {}, sup)
        ELSE [View("items", data.keys, data.aoi, sup) EXCEPT !.seq = data.seq]]

\* A render without the test for an empty item list.
RenderNoEmptyCheck(data, sup) ==
    [l \in Layouts |->
        IF ~hasItems(data) THEN View("error", {}, {}, sup)
        ELSE View("items", data.keys, data.aoi, sup)]

\* A render whose table block lacks the test for an empty item list.
RenderTableBare(data, sup) ==
    [l \in Layouts |->
        IF ~hasItems(data) THEN View("error", {}, {}, sup)
        ELSE IF data.keys = {} /\ l = "cards" THEN View("empty", {}, {}, sup)
        ELSE View("items", data.keys, data.aoi, sup)]

\* A render that leaves a list alone once it shows the error message.
RenderKeepsError(data, sup) ==
    IF alerts["cards"].st = "error" THEN alerts
    ELSE [l \in Layouts |->
            IF ~hasItems(data) THEN View("error", {}, {}, sup)
            ELSE IF data.keys = {} THEN View("empty", {}, {}, sup)
            ELSE [View("items", data.keys, data.aoi, sup) EXCEPT !.seq = data.seq]]

\* Lines 346-370: what each container shows once the awaited data is there.
loadAlertsRender(data, sup) ==
    [l \in Layouts |->
        IF ~hasItems(data) THEN View("error", {}, {}, sup)
        ELSE IF data.keys = {} THEN View("empty", {}, {}, sup)
        ELSE [View("items", data.keys, data.aoi, sup) EXCEPT !.seq = data.seq]]

\* ----------------------------------------------------------- loadMonitors
\* Lines 512-515.
loadMonitorsRuns == path = "monitor"

\* Lines 526-529.
loadMonitorsPlaceholder(v, isBackground) ==
    IF loadMonitorsRuns /\ ~isBackground THEN [l \in Layouts |-> LoadingView] ELSE v

\* Line 531.
loadMonitorsRequest(n, tok) ==
    IF loadMonitorsRuns THEN Issue(n, Req("loadMonitors", NoKey, FALSE, NoKey, tok)) ELSE n

\* Lines 532-553.
loadMonitorsRender(data, sup) ==
    [l \in Layouts |->
        IF ~hasItems(data) THEN View("error", {}, {}, sup)
        ELSE IF data.keys = {} THEN View("empty", {}, {}, sup)
        ELSE [View("items", data.keys, data.keys, sup) EXCEPT !.seq = data.seq]]

\* ---------------------------------------------------------- loadTopRecent
\* Lines 558-559.
loadTopRecentRuns == hasRecent

\* Line 560.
loadTopRecentPlaceholder(v, isBackground) ==
    IF loadTopRecentRuns /\ ~isBackground THEN LoadingView ELSE v

\* Line 562.
loadTopRecentRequest(n, tok) ==
    IF loadTopRecentRuns THEN Issue(n, Req("loadTopRecent", NoKey, FALSE, NoKey, tok)) ELSE n

\* Lines 563-586: no items, a failure included, is the "no recent" message.
loadTopRecentRender(data, sup) ==
    IF ~hasItems(data) \/ data.keys = {} THEN View("empty", {}, {}, sup)
    ELSE View("items", data.keys, data.aoi, sup)

\* ---------------------------------------------------------- detail overlay
\* _refreshDetailCta(isAoi) (lines 176-188).
refreshDetailCta(isAoi) ==
    [disabled |-> FALSE, mode |-> IF isAoi THEN "remove" ELSE "add"]

\* A loadAlerts that forgets the held item when it rewrites the panel.
DropItem(d, panel) == NoItem

\* The item objects a panel's closures hold are dropped when the panel is
\* rewritten; an overlay opened from them keeps its object.
Detach(d, panel) == IF d.live = panel THEN [d EXCEPT !.live = "none"] ELSE d

\* --------------------------------------------------------------- backend
\* POST /api/watchlist/toggle {contract_key, is_active}: the watch list after
\* the call; is_active is currentActive ? 0 : 1.
ToggleApplied(w, ck, was) == IF was THEN w \ {ck} ELSE w \cup {ck}

\* score_total of the alert of each contract, and the place of each in the
\* backend's own order (its answer without sort_score).
ScoreTotal == [k \in Keys |-> IF k = "A" THEN 70 ELSE 90]
ArrivalRank == [k \in Keys |-> IF k = "A" THEN 1 ELSE 2]

\* The elements of S as a sequence of increasing rank.
RECURSIVE OrderedBy(_, _)
OrderedBy(S, rank) ==
    IF S = {} THEN << >>
    ELSE LET k == CHOOSE x \in S : \A y \in S : rank[x] <= rank[y]
         IN  <<k>> \o OrderedBy(S \ {k}, rank)

\* GET /api/alerts: the items array for the contracts S under sort_score.
ItemsInOrder(S, sort_score) ==
    IF sort_score = "desc" THEN OrderedBy(S, [k \in Keys |-> 0 - ScoreTotal[k]])
    ELSE IF sort_score = "asc" THEN OrderedBy(S, ScoreTotal)
    ELSE OrderedBy(S, ArrivalRank)

\* The backend accepts the credential request r carries.
Authorized(r) == r.auth /\ sessionOk

\* The backend's answer to GET request r from its present state.
AnswerNow(r) ==
    IF ~Authorized(r) THEN Resp("401", {}, {})
    ELSE IF r.fn = "loadMonitors"
    THEN [Resp("ok", watched, watched) EXCEPT !.seq = OrderedBy(watched, ArrivalRank)]
    ELSE IF r.fn = "loadAlerts"
    THEN [Resp("ok", catalog, catalog \cap watched)
             EXCEPT !.seq = ItemsInOrder(catalog, r.q.sort_score)]
    ELSE Resp("ok", catalog, catalog \cap watched)

\* The backend reads its state for a GET at some moment between the request
\* and the response.  Only the order of that read and the backend's own
\* state changes can be observed, so a GET is either answered from the
\* present state when its response is delivered, or it was answered just
\* before a state change: those of set F are.
PendingGets(n) == {j \in DOMAIN n : n[j].fn \in FeedFns /\ n[j].res.kind = "pending"}

Freeze(n, F) ==
    [j \in DOMAIN n |-> IF j \in F THEN [n[j] EXCEPT !.res = AnswerNow(n[j])] ELSE n[j]]

\* What may arrive for request r: always a transport failure; the answer
\* given earlier; for a GET not answered yet the answer from the present
\* state; for a toggle not applied yet only the rejection of its credential.
Arrivals(r) ==
    {Resp("fail", {}, {})}
    \cup (IF r.res.kind # "pending" THEN {r.res}
          ELSE IF r.fn \in FeedFns THEN {AnswerNow(r)}
          ELSE IF ~Authorized(r) THEN {Resp("401", {}, {})}
          ELSE {})

\* ------------------------------------------------------------- score sort
SortValues == {"", "desc", "asc"}

\* Line 781: the value after a click on #th-score.
thScoreNext(sort) == IF sort = "" THEN "desc" ELSE IF sort = "desc" THEN "asc" ELSE ""

\* Line 790: the value after a click on #mobile-sort-score.
mobileSortNext(sort) == IF sort = "desc" THEN "" ELSE "desc"

\* refreshSortUI (lines 759-777): the icon of the table header (lines
\* 761-766) and the button of the compact layout (lines 768-776).
refreshSortIcon(sort) ==
    [glyph |-> IF sort = "" THEN "swap_vert"
               ELSE IF sort = "desc" THEN "arrow_downward" ELSE "arrow_upward",
     lit |-> sort # ""]

refreshMobileSort(sort) == IF sort = "desc" THEN "active" ELSE "inactive"

\* -------------------------------------------------------------- renderers
\* A field that is null or missing.
Absent == 0 - 1

\* Number.prototype.toFixed(1) of v / d, in tenths: the nearest tenth, the
\* larger one of two equally near.
toFixed1(v, d) == (20 * v + d) \div (2 * d)

NoData == [kind |-> "nodata", tenths |-> 0]
Ratio(v, d) == [kind |-> "ratio", tenths |-> toFixed1(v, d)]
NotShown == [kind |-> "none", tenths |-> 0]

\* `x` is truthy: present and not zero.
Truthy(x) == x # Absent /\ x # 0

\* The Vol/OI cell of renderAlertCard (line 262), of renderAlertRow (line
\* 305) and of openDetailPopup (line 146).
renderAlertCardVolOI(it) ==
    IF Truthy(it.volume) /\ Truthy(it.oi) THEN Ratio(it.volume, it.oi) ELSE NoData

renderAlertRowVolOI(it) ==
    IF Truthy(it.volume) /\ Truthy(it.oi) THEN Ratio(it.volume, it.oi) ELSE NoData

openDetailPopupVolOI(it) ==
    IF Truthy(it.volume) /\ Truthy(it.oi) THEN Ratio(it.volume, it.oi) ELSE NoData

\* The Vol/OI cell of the table-only loadAlerts (src/unnamed/part_001, line
\* 129): item.volume / (item.oi || 1).
tableOnlyVolOI(it) ==
    IF Truthy(it.volume) THEN Ratio(it.volume, IF Truthy(it.oi) THEN it.oi ELSE 1)
    ELSE NoData

\* Array.prototype.slice(-n) and reverse().
LastN(h, n) ==
    IF Len(h) <= n THEN h ELSE [i \in 1..n |-> h[Len(h) - n + i]]

Reverse(h) == [i \in 1..Len(h) |-> h[Len(h) + 1 - i]]

\* The sizes of the "Last 10 Ticks" list (line 398) and of the sparkline's
\* window (line 78).
ListTicks == 10
SparkPoints == 40

\* generateSparklineSVG (lines 76-91): the samples its path goes through.
generateSparklineSVG(history) ==
    IF Len(history) < 2 THEN << >> ELSE LastN(history, SparkPoints)

\* openMonitorDetailPopup (lines 394-413): the rows of the list and the
\* samples of the chart; hidden: #detail-sparkline-wrap is not displayed.
openMonitorDetailPopupTrend(history) ==
    IF Len(history) > 0
    THEN [hidden |-> FALSE,
          list |-> Reverse(LastN(history, ListTicks)),
          chart |-> generateSparklineSVG(history)]
    ELSE [hidden |-> TRUE, list |-> << >>, chart |-> << >>]

\* Array methods with what they leave in their receiver: slice(-n) and the
\* spread into a new array leave it as it was, reverse() reverses it in
\* place and returns it.
slice(a, n) == [ret |-> LastN(a, n), self |-> a]
spread(a) == [ret |-> a, self |-> a]
reverse(a) == [ret |-> Reverse(a), self |-> Reverse(a)]

\* item.score_history after generateSparklineSVG(item.score_history) (lines
\* 77-78): the function returns at once or takes points by slice(-40).
generateSparklineSVGHistory(history) ==
    IF Len(history) < 2 THEN history ELSE slice(history, SparkPoints).self

\* A detail overlay that reverses the history itself.
ReverseInPlace(history) == reverse(history).self

\* item.score_history after openMonitorDetailPopup(item) (lines 394-407):
\* reverse() is called on the array that slice(-10) made of a copy, then
\* the chart is drawn.
openMonitorDetailPopupHistory(history) ==
    IF Len(history) > 0
    THEN LET copy == spread(history)
             ticks == reverse(slice(copy.ret, ListTicks).ret)
         IN  generateSparklineSVGHistory(copy.self)
    ELSE history

\* A comma-separated tags string is the sequence of its entries, what
\* split(',') returns; null and '' alike give one empty entry (line 216:
\* item.tags || '').  The entries a string may have here: none, one of
\* white space only, a word, a word after a space.
Entries == {"", " ", "sweep", " block"}

\* String.prototype.trim().
trim(t) == IF t = " " THEN "" ELSE IF t = " block" THEN "block" ELSE t

\* filter(Boolean): the empty string is the only falsy string.
filterBoolean(ts) == SelectSeq(ts, LAMBDA t : t # "")

\* The labels of the chips of renderAlertCard (lines 216-217), of
\* renderAlertRow (lines 290-291) and of openDetailPopup (lines 163-165).
alertTags(tags) == [i \in DOMAIN filterBoolean(tags) |-> trim(filterBoolean(tags)[i])]

\* The labels of the spans of the table-only loadAlerts (src/unnamed/
\* part_001, line 139): an empty entry maps to '', any other to a span of
\* the entry as it is.
tableOnlyTags(tags) == filterBoolean(tags)

\* scoreColor (lines 39-44).
ScoreHigh == 85
ScoreMedium == 60
scoreColor(score) ==
    IF score = Absent THEN "chip-neutral"
    ELSE IF score >= ScoreHigh THEN "chip-green"
    ELSE IF score >= ScoreMedium THEN "chip-yellow"
    ELSE "chip-neutral"

\* The score chip of openDetailPopup (line 142): none without a score.
openDetailPopupChip(score) == IF score # Absent THEN scoreColor(score) ELSE "none"

\* The score cell of the table-only loadAlerts (src/unnamed/part_001, line
\* 133): null > 85 is false.
tableOnlyScoreClass(score) ==
    IF score # Absent /\ score > ScoreHigh THEN "bg-emerald-500/20" ELSE "bg-slate-700"

\* ------------------------------------------------------------------ Init
\* The markup of the pages is not among the sources.  A page configuration
\* says which page the document is, whether it has a recent-alert panel,
\* which layout's buttons come first in the document, and which contracts
\* the backend has alerts for.
Config(p, r, f, c) == [path |-> p, hasRecent |-> r, domFirst |-> f, catalog |-> c]

Configs ==
    {Config("index", FALSE, f, c) : f \in Layouts, c \in {{}, {"A"}}}
    \cup {Config("monitor", TRUE, "cards", {"A"})}

\* The state at the end of the DOMContentLoaded handler (lines 654-811) of
\* a page that passed the auth gate: updateHealth (line 797) is suspended at
\* its Promise.all and the foreground loads of lines 798-801 have been
\* started.
InitIn(C) ==
    /\ \E c \in C :
          /\ path = c.path
          /\ hasRecent = c.hasRecent
          /\ domFirst = c.domFirst
          /\ catalog = c.catalog
    /\ token = TRUE
    /\ navCount = 0
    /\ unloaded = FALSE
    /\ uncaught = FALSE
    /\ sessionOk = TRUE
    /\ watched \in SUBSET catalog
    /\ alerts = IF listener = "change"
                THEN tableOnlyPlaceholder([l \in Layouts |-> StaticView], FALSE)
                ELSE loadAlertsPlaceholder([l \in Layouts |-> StaticView], FALSE)
    /\ monitors = loadMonitorsPlaceholder([l \in Layouts |-> StaticView], FALSE)
    /\ recent = loadTopRecentPlaceholder(StaticView, FALSE)
    /\ net = loadTopRecentRequest(
                 loadMonitorsRequest(loadAlertsRequest(<<>>, getToken), getToken),
                 getToken)
    /\ objAoi = [p \in {"alerts", "recent"} |-> {}]
    /\ detailItem = NoItem
    /\ backdrop = FALSE
    /\ scrollLock = FALSE
    /\ cta = [disabled |-> FALSE, mode |-> "static"]
    /\ healthCalls = <<[data |-> "pending",
                        uw |-> IF listener = "change" THEN "none" ELSE "pending",
                        auth |-> token]>>
    /\ healthTs = "static"
    /\ uwBadge = "static"

\* The listener of #filter-symbol: src/dashboard/app.js registers one for
\* input events (line 734), the table-only script of src/unnamed/part_001
\* one for change events (line 320).
Listeners == {"input", "change"}

\* Nothing typed, no timeout set, on a page whose script is one of L.
FilterIdleIn(L) ==
    /\ symbol = ""
    /\ listener \in L
    /\ committed = ""
    /\ debounce = 0
    /\ timers = << >>
    /\ sinceInput = DebounceMs

\* Nothing typed, no timeout set, with the script of src/dashboard/app.js.
FilterIdle == FilterIdleIn({"input"})

\* A document that awaits nothing and shows its panels as shipped.
Quiet ==
    /\ hasRecent = FALSE
    /\ domFirst = "cards"
    /\ catalog = {}
    /\ watched = {}
    /\ sessionOk = TRUE
    /\ navCount = 0
    /\ unloaded = FALSE
    /\ uncaught = FALSE
    /\ net = << >>
    /\ alerts = [l \in Layouts |-> StaticView]
    /\ monitors = [l \in Layouts |-> StaticView]
    /\ recent = StaticView
    /\ objAoi = [p \in {"alerts", "recent"} |-> {}]
    /\ detailItem = NoItem
    /\ backdrop = FALSE
    /\ scrollLock = FALSE
    /\ cta = [disabled |-> FALSE, mode |-> "static"]

\* No call of fetchApi is being looked at.
NoOut == [threw |-> FALSE, logout |-> FALSE, ret |-> "pending"]
ApiIdle == probe = [o |-> NetError, out |-> NoOut, called |-> FALSE]

\* updateHealth has not run (a document whose handler has not reached line
\* 797); the login form as shipped.
HealthIdle ==
    /\ healthCalls = << >>
    /\ healthTs = "static"
    /\ uwBadge = "static"

LoginIdle ==
    /\ loginForm = [btn |-> "enabled", pending |-> FALSE, error |-> "none", auth |-> FALSE]
    /\ homeNav = 0

\* No sort and no type chosen, the controls as shipped: the markup is not
\* among the sources, so no type button counts as active before a click.
NoIcon == [glyph |-> "static", lit |-> FALSE]

SortIdle ==
    /\ currentSortScore = ""
    /\ sortIcon = NoIcon
    /\ mobileSort = "static"
    /\ currentTypeFilter = ""
    /\ typeActive = {}

\* The DOMContentLoaded handler has run to its end.
BootDone ==
    /\ domState = "ran"
    /\ interval = TRUE

\* No item is being rendered.
NoTags == <<"">>
NoObject ==
    [what |-> "none", volume |-> Absent, oi |-> Absent, score_history |-> << >>,
     tags |-> NoTags, score_total |-> Absent]
NoSpark == [drawn |-> FALSE, points |-> << >>]
NothingShown ==
    [card |-> NotShown, row |-> NotShown, detail |-> NotShown, tableOnly |-> NotShown,
     trend |-> [hidden |-> TRUE, list |-> << >>, chart |-> << >>], opened |-> FALSE,
     tags |-> [r \in {"card", "row", "detail", "tableOnly"} |-> << >>],
     chip |-> [r \in {"card", "row", "detail", "tableOnly"} |-> "none"],
     inline |-> [l \in {"cards", "table"} |-> NoSpark]]

RenderIdle ==
    /\ item = NoObject
    /\ shown = NothingShown

Init == FilterIdle /\ ApiIdle /\ LoginIdle /\ SortIdle /\ BootDone /\ RenderIdle /\ InitIn(Configs)

\* ------------------------------------------------------------- environment
\* The backend applies the toggle of request i.
ServeToggle(i) ==
    /\ ~unloaded
    /\ net[i].fn \in ToggleFns
    /\ net[i].res.kind = "pending"
    /\ Authorized(net[i])
    /\ \E F \in SUBSET PendingGets(net) :
          net' = [Freeze(net, F) EXCEPT ![i].res = Resp("ok", {}, {})]
    /\ watched' = ToggleApplied(watched, net[i].ck, net[i].was)
    /\ UNCHANGED sideVars
    /\ UNCHANGED <<catalog, path, hasRecent, domFirst, token, navCount, unloaded, uncaught,
                   sessionOk, alerts, monitors, recent, objAoi, detailItem,
                   backdrop, scrollLock, cta>>

\* The backend stops accepting the credential (it expired or was revoked).
ExpireSession ==
    /\ ~unloaded
    /\ sessionOk
    /\ sessionOk' = FALSE
    /\ \E F \in SUBSET PendingGets(net) : net' = Freeze(net, F)
    /\ UNCHANGED sideVars
    /\ UNCHANGED <<catalog, path, hasRecent, domFirst, token, navCount, unloaded, uncaught,
                   watched, alerts, monitors, recent, objAoi, detailItem,
                   backdrop, scrollLock, cta>>

\* A navigation the page has started commits: the one of logout(), the
\* one of the gate (line 657) or the one after a login (line 693).  The
\* document, its console and everything it awaited are gone.
Unload ==
    /\ ~unloaded
    /\ navCount > 0 \/ homeNav > 0 \/ domState = "redirected"
    /\ unloaded' = TRUE
    /\ net' = <<>>
    /\ uncaught' = FALSE
    /\ alerts' = [l \in Layouts |-> StaticView]
    /\ monitors' = [l \in Layouts |-> StaticView]
    /\ recent' = StaticView
    /\ objAoi' = [p \in {"alerts", "recent"} |-> {}]
    /\ detailItem' = NoItem
    /\ backdrop' = FALSE
    /\ scrollLock' = FALSE
    /\ cta' = [disabled |-> FALSE, mode |-> "static"]
    /\ UNCHANGED sideVars
    /\ UNCHANGED <<catalog, path, hasRecent, domFirst, token, navCount, sessionOk, watched>>

\* ------------------------------------------------------------ updateHealth
\* A run of updateHealth suspended at its Promise.all (line 60): what each
\* of the two fetchApi calls has returned so far.  "null"; or the body:
\* "falsy" for a body that is null, false, 0 or "" (null off the catch and
\* the 401 branch is "null"), "yes" / "no" for an object whose ok (of
\* /health) or enabled (of /uw/status) is true / false, "other" for an
\* object without that field.
HealthParts == {"data", "uw"}

updateHealthCall(calls, tok) ==
    Append(calls, [data |-> "pending", uw |-> "pending", auth |-> tok])

\* updateHealth of the table-only script (src/unnamed/part_001, lines
\* 80-87) awaits fetchApi('/health') alone: uw is "none".
tableOnlyUpdateHealth(calls, tok) ==
    Append(calls, [data |-> "pending", uw |-> "none", auth |-> tok])

\* The run of updateHealth the page's script starts.
updateHealthRun(calls, tok) ==
    IF listener = "change" THEN tableOnlyUpdateHealth(calls, tok)
    ELSE updateHealthCall(calls, tok)

\* What fetchApi returns for outcome o of a request whose body is a falsy
\* value or an object that, if the status is 200, carries the flag.
PartValue(o, flag, falsy, pathname) ==
    IF fetchApiHttp(o, pathname).ret = "null" THEN "null"
    ELSE IF falsy THEN "falsy"
    ELSE IF o.status = 200 THEN (IF flag THEN "yes" ELSE "no")
    ELSE "other"

\* Lines 61-69: the chips after Promise.all has resolved to [data, uw].
updateHealthTs(ts, data) == IF data = "yes" THEN "updated" ELSE ts
updateHealthBadge(uw) == IF uw \in {"no", "other"} THEN "shown" ELSE "hidden"

\* What may arrive for a request of run c: a transport failure, an answer,
\* and the rejection of a credential that is missing or no longer accepted;
\* the body of a response is an object or a falsy value.
HealthArrivals(c) ==
    {[o |-> NetError, flag |-> FALSE, falsy |-> FALSE]}
    \cup {[o |-> [net |-> "ok", status |-> 200, json |-> TRUE], flag |-> f, falsy |-> FALSE] :
              f \in BOOLEAN}
    \cup {[o |-> [net |-> "ok", status |-> 200, json |-> TRUE], flag |-> FALSE, falsy |-> TRUE]}
    \cup (IF c.auth /\ sessionOk THEN {}
          ELSE {[o |-> [net |-> "ok", status |-> 401, json |-> TRUE], flag |-> FALSE,
                 falsy |-> z] : z \in BOOLEAN})

\* The response to one of the two requests of run j arrives; when the other
\* has been answered too, Promise.all resolves and updateHealth goes on
\* (lines 61-69).
ResolveHealth(j, part, a) ==
    /\ ~unloaded
    /\ j \in DOMAIN healthCalls
    /\ healthCalls[j][part] = "pending"
    /\ a \in HealthArrivals(healthCalls[j])
    /\ LET out == fetchApiHttp(a.o, path)
           c == [healthCalls[j] EXCEPT ![part] = PartValue(a.o, a.flag, a.falsy, path)]
       IN  /\ out.logout => navCount < MaxNav
           /\ token' = IF out.logout THEN logoutToken ELSE token
           /\ navCount' = IF out.logout THEN logoutNav(navCount) ELSE navCount
           /\ IF c.data # "pending" /\ c.uw # "pending"
              THEN /\ healthCalls' = RemoveAt(healthCalls, j)
                   /\ healthTs' = updateHealthTs(healthTs, c.data)
                   /\ uwBadge' = IF c.uw = "none" THEN uwBadge ELSE updateHealthBadge(c.uw)
              ELSE /\ healthCalls' = [healthCalls EXCEPT ![j] = c]
                   /\ UNCHANGED <<healthTs, uwBadge>>
    /\ UNCHANGED <<filterVars, apiVars, loginVars, moreVars>>
    /\ UNCHANGED <<catalog, path, hasRecent, domFirst, unloaded, uncaught, sessionOk, watched,
                   net, alerts, monitors, recent, objAoi, detailItem, backdrop, scrollLock,
                   cta>>

\* The backend answers a request of the oldest run of updateHealth: it is
\* in good health, with the feed enabled.
HealthOk ==
    /\ healthCalls # << >>
    /\ \E part \in HealthParts :
          ResolveHealth(1, part, [o |-> [net |-> "ok", status |-> 200, json |-> TRUE],
                                  flag |-> TRUE, falsy |-> FALSE])

\* Some response to a request of some run of updateHealth arrives.
HealthAnswered ==
    \E j \in DOMAIN healthCalls : \E part \in HealthParts :
        \E a \in HealthArrivals(healthCalls[j]) : ResolveHealth(j, part, a)

\* ------------------------------------------------------------------ poller
\* Requests one run of the interval callback issues on this page.
TickRequests ==
    (IF loadAlertsRuns THEN 1 ELSE 0) + (IF loadMonitorsRuns THEN 1 ELSE 0)
    + (IF loadTopRecentRuns THEN 1 ELSE 0)

\* The list loads of the setInterval callback (lines 806-808).
TickLists ==
    /\ ~unloaded
    /\ interval
    /\ Len(net) + TickRequests <= MaxInflight
    /\ net' = loadTopRecentRequest(
                  loadMonitorsRequest(loadAlertsRequest(net, getToken), getToken),
                  getToken)
    /\ alerts' = loadAlertsPlaceholder(alerts, TRUE)
    /\ monitors' = loadMonitorsPlaceholder(monitors, TRUE)
    /\ recent' = loadTopRecentPlaceholder(recent, TRUE)
    /\ UNCHANGED <<catalog, path, hasRecent, domFirst, token, navCount, unloaded, uncaught,
                   sessionOk, watched, objAoi, detailItem, backdrop, scrollLock, cta>>

\* The setInterval callback (lines 804-810): updateHealth and the list
\* loads; loadMarketTide (line 809) returns at line 602 on the index and
\* the monitor page.
Tick ==
    /\ TickLists
    /\ Len(healthCalls) < MaxInflight
    /\ healthCalls' = updateHealthRun(healthCalls, getToken)
    /\ UNCHANGED <<healthTs, uwBadge, filterVars, apiVars, loginVars, moreVars>>

\* ------------------------------------------------- responses: the feeds
\* Response a arrives for request i, awaited by async function fn.
Arrived(i, fn, a) ==
    /\ ~unloaded
    /\ i \in DOMAIN net
    /\ net[i].fn = fn
    /\ a \in Arrivals(net[i])
    /\ fetchApiLogsOut(a) => navCount < MaxNav

\* fetchApi lines 53-55 on response a: token and navCount.
TokenAfter(a) == IF fetchApiLogsOut(a) THEN logoutToken ELSE token
NavAfter(a) == IF fetchApiLogsOut(a) THEN logoutNav(navCount) ELSE navCount

\* loadAlerts resumes after line 345 (after line 109 of the table-only
\* script, whose rows hold no item object).
DeliverAlerts(i, a) ==
    /\ Arrived(i, "loadAlerts", a)
    /\ LET r == net[i]
           data == fetchApi(a)
       IN  /\ token' = TokenAfter(a)
           /\ navCount' = NavAfter(a)
           /\ alerts' = IF listener = "change" THEN tableOnlyRender(alerts, data, r.sup)
                        ELSE loadAlertsRender(data, r.sup)
           /\ objAoi' = [objAoi EXCEPT !.alerts = IF hasItems(data) /\ listener # "change"
                                                  THEN data.aoi ELSE {}]
           /\ detailItem' = Detach(detailItem, "alerts")
           /\ net' = RemoveAt(net, i)
    /\ UNCHANGED sideVars
    /\ UNCHANGED <<catalog, path, hasRecent, domFirst, unloaded, uncaught, sessionOk, watched,
                   monitors, recent, backdrop, scrollLock, cta>>

\* loadMonitors resumes after line 531.
DeliverMonitors(i, a) ==
    /\ Arrived(i, "loadMonitors", a)
    /\ LET r == net[i]
           data == fetchApi(a)
       IN  /\ token' = TokenAfter(a)
           /\ navCount' = NavAfter(a)
           /\ monitors' = loadMonitorsRender(data, r.sup)
           /\ net' = RemoveAt(net, i)
    /\ UNCHANGED sideVars
    /\ UNCHANGED <<catalog, path, hasRecent, domFirst, unloaded, uncaught, sessionOk, watched,
                   alerts, recent, objAoi, detailItem, backdrop, scrollLock, cta>>

\* loadTopRecent resumes after line 562.
DeliverRecent(i, a) ==
    /\ Arrived(i, "loadTopRecent", a)
    /\ LET r == net[i]
           data == fetchApi(a)
       IN  /\ token' = TokenAfter(a)
           /\ navCount' = NavAfter(a)
           /\ recent' = loadTopRecentRender(data, r.sup)
           /\ objAoi' = [objAoi EXCEPT !.recent = loadTopRecentRender(data, r.sup).aoi]
           /\ detailItem' = Detach(detailItem, "recent")
           /\ net' = RemoveAt(net, i)
    /\ UNCHANGED sideVars
    /\ UNCHANGED <<catalog, path, hasRecent, domFirst, unloaded, uncaught, sessionOk, watched,
                   alerts, monitors, backdrop, scrollLock, cta>>

\* ------------------------------------------------------------ toggleAOI
\* Lines 113-114: document.querySelector finds the first [data-ck] element of
\* the key in the document, which is the one of layout domFirst; only the
\* alert cards and rows carry data-ck (lines 220, 223, 313).  The views after
\* the button was disabled.
toggleAOIDisable(v, ck) ==
    IF v[domFirst].st = "items" /\ ck \in v[domFirst].keys
    THEN [v EXCEPT ![domFirst].disabled = @ \cup {ck}]
    ELSE v

\* Lines 119-120: the refresh after the awaited call, as the request queue.
toggleAOIRefresh(n, tok) ==
    IF path = "monitor" THEN loadMonitorsRequest(n, tok) ELSE loadAlertsRequest(n, tok)

\* The operator clicks the star of contract k in layout l (lines 220-223,
\* 313-314): toggleAOI(k, isAoi as rendered) up to its await.
ClickStar(l, k) ==
    /\ ~unloaded
    /\ ~backdrop
    /\ Len(net) < MaxInflight
    /\ alerts[l].st = "items"
    /\ k \in alerts[l].keys
    /\ k \notin alerts[l].disabled
    /\ alerts' = toggleAOIDisable(alerts, k)
    /\ net' = Issue(net, Req("toggleAOI", k, k \in alerts[l].aoi, l, getToken))
    /\ UNCHANGED sideVars
    /\ UNCHANGED <<catalog, path, hasRecent, domFirst, token, navCount, unloaded, uncaught,
                   sessionOk, watched, monitors, recent, objAoi, detailItem,
                   backdrop, scrollLock, cta>>

\* The operator clicks the remove button of monitored contract k in layout l
\* (lines 441, 502): toggleAOI(k, 1) up to its await.
ClickRemove(l, k) ==
    /\ ~unloaded
    /\ ~backdrop
    /\ Len(net) < MaxInflight
    /\ monitors[l].st = "items"
    /\ k \in monitors[l].keys
    /\ alerts' = toggleAOIDisable(alerts, k)
    /\ net' = Issue(net, Req("toggleAOI", k, TRUE, l, getToken))
    /\ UNCHANGED sideVars
    /\ UNCHANGED <<catalog, path, hasRecent, domFirst, token, navCount, unloaded, uncaught,
                   sessionOk, watched, monitors, recent, objAoi, detailItem,
                   backdrop, scrollLock, cta>>

\* toggleAOI resumes after line 118.
DeliverToggle(i, a) ==
    /\ Arrived(i, "toggleAOI", a)
    /\ LET r == net[i]
       IN  /\ token' = TokenAfter(a)
           /\ navCount' = NavAfter(a)
           /\ net' = toggleAOIRefresh(RemoveAt(net, i), TokenAfter(a))
           /\ alerts' = IF path = "monitor" THEN alerts
                        ELSE loadAlertsPlaceholder(alerts, TRUE)
           /\ monitors' = IF path = "monitor" THEN loadMonitorsPlaceholder(monitors, TRUE)
                          ELSE monitors
    /\ UNCHANGED sideVars
    /\ UNCHANGED <<catalog, path, hasRecent, domFirst, unloaded, uncaught, sessionOk, watched,
                   recent, objAoi, detailItem, backdrop, scrollLock, cta>>

\* -------------------------------------------------------- detail overlay
\* openDetailPopup(item) (lines 130-174) on the item object of key k that the
\* closures of `panel` hold.
openDetailPopup(panel, k) ==
    LET isAoi == k \in objAoi[panel]
    IN  /\ detailItem' = [key |-> k, aoi |-> isAoi, live |-> panel]
        /\ cta' = refreshDetailCta(isAoi)
        /\ backdrop' = TRUE
        /\ scrollLock' = TRUE

\* The end of openMonitorDetailPopup (lines 415-416), on both branches of
\* line 394.
openMonitorDetailPopup ==
    /\ backdrop' = TRUE
    /\ scrollLock' = TRUE

\* The operator clicks an alert card or row outside its star (lines 282, 319).
OpenAlertDetail(l, k) ==
    /\ ~unloaded
    /\ ~backdrop
    /\ alerts[l].st = "items"
    /\ k \in alerts[l].keys
    /\ openDetailPopup("alerts", k)
    /\ UNCHANGED sideVars
    /\ UNCHANGED <<catalog, path, hasRecent, domFirst, token, navCount, unloaded, uncaught,
                   sessionOk, watched, net, alerts, monitors, recent, objAoi>>

\* The operator clicks an item of the recent panel (line 584).
OpenRecentDetail(k) ==
    /\ ~unloaded
    /\ ~backdrop
    /\ recent.st = "items"
    /\ k \in recent.keys
    /\ openDetailPopup("recent", k)
    /\ UNCHANGED sideVars
    /\ UNCHANGED <<catalog, path, hasRecent, domFirst, token, navCount, unloaded, uncaught,
                   sessionOk, watched, net, alerts, monitors, recent, objAoi>>

\* The operator clicks a monitor card or row outside its button (lines 427,
\* 481): openMonitorDetailPopup (lines 374-417) opens the overlay and leaves
\* _detailItem and the CTA alone.
OpenMonitorDetail(l, k) ==
    /\ ~unloaded
    /\ ~backdrop
    /\ monitors[l].st = "items"
    /\ k \in monitors[l].keys
    /\ openMonitorDetailPopup
    /\ UNCHANGED sideVars
    /\ UNCHANGED <<catalog, path, hasRecent, domFirst, token, navCount, unloaded, uncaught,
                   sessionOk, watched, net, alerts, monitors, recent, objAoi,
                   detailItem, cta>>

\* closeDetailPopup() (lines 205-209), by the close control, a click on the
\* backdrop or the Escape key (lines 720-726).
closeDetailPopup ==
    /\ ~unloaded
    /\ backdrop' = FALSE
    /\ scrollLock' = FALSE
    /\ detailItem' = NoItem
    /\ UNCHANGED sideVars
    /\ UNCHANGED <<catalog, path, hasRecent, domFirst, token, navCount, unloaded, uncaught,
                   sessionOk, watched, net, alerts, monitors, recent, objAoi, cta>>

\* A backdrop listener that does not look at the target of the click.
AnyTargetCloses(target) == TRUE

\* Line 722: the click listener of #detail-backdrop closes when the target
\* of the click is the backdrop itself, not an element of the region in it.
backdropClickCloses(target) == target = "backdrop"

\* Line 725: the keydown listener of the document closes on Escape.
keydownCloses(key) == key = "Escape"

ClickTargets == {"backdrop", "region"}
KeysPressed == {"Escape", "Enter"}

\* A click on #detail-close (line 720).
ClickDetailClose == closeDetailPopup

\* A click on the backdrop or on the region inside it, which bubbles to the
\* backdrop's listener (lines 721-723).
ClickBackdrop(target) ==
    IF backdropClickCloses(target) THEN closeDetailPopup
    ELSE ~unloaded /\ UNCHANGED vars

\* A key is pressed (lines 724-726).
KeyDown(key) ==
    IF keydownCloses(key) THEN closeDetailPopup
    ELSE ~unloaded /\ UNCHANGED vars

\* detailCtaClick() up to its await (lines 190-199); a disabled button
\* receives no click.
detailCtaClick ==
    /\ ~unloaded
    /\ backdrop
    /\ ~cta.disabled
    /\ Len(net) < MaxInflight
    /\ IF detailItem = NoItem
       THEN UNCHANGED <<cta, net>>
       ELSE /\ cta' = [cta EXCEPT !.disabled = TRUE]
            /\ net' = Issue(net, Req("detailCtaClick", detailItem.key, detailItem.aoi,
                                "cta", getToken))
    /\ UNCHANGED sideVars
    /\ UNCHANGED <<catalog, path, hasRecent, domFirst, token, navCount, unloaded, uncaught,
                   sessionOk, watched, alerts, monitors, recent, objAoi,
                   detailItem, backdrop, scrollLock>>

\* Line 200 on the object _detailItem points to: the is_aoi values of the
\* objects the panels' closures hold.
FlipObject(o, d, isAoi) ==
    IF d.live = "none" THEN o
    ELSE [o EXCEPT ![d.live] = IF isAoi THEN @ \cup {d.key} ELSE @ \ {d.key}]

\* detailCtaClick resumes after line 199.  With _detailItem = null line 200
\* throws a TypeError and the rest of the function does not run.
DeliverCta(i, a) ==
    /\ Arrived(i, "detailCtaClick", a)
    /\ LET r == net[i]
       IN  /\ token' = TokenAfter(a)
           /\ navCount' = NavAfter(a)
           /\ IF detailItem = NoItem
              THEN /\ uncaught' = TRUE
                   /\ net' = RemoveAt(net, i)
                   /\ UNCHANGED <<detailItem, objAoi, cta, alerts>>
              ELSE /\ detailItem' = [detailItem EXCEPT !.aoi = ~r.was]
                   /\ objAoi' = FlipObject(objAoi, detailItem, ~r.was)
                   /\ cta' = refreshDetailCta(~r.was)
                   /\ net' = loadAlertsRequest(RemoveAt(net, i), TokenAfter(a))
                   /\ alerts' = loadAlertsPlaceholder(alerts, TRUE)
                   /\ UNCHANGED uncaught
    /\ UNCHANGED sideVars
    /\ UNCHANGED <<catalog, path, hasRecent, domFirst, unloaded, sessionOk, watched,
                   monitors, recent, backdrop, scrollLock>>

\* ------------------------------------------------------------------ Next
\* ---------------------------------------------------------- symbol filter
\* clearTimeout(h) and setTimeout(f, delay) on the pending timeouts ts of
\* the input listener; a new timeout gets a handle that is not pending.
clearTimeout(ts, h) == [k \in DOMAIN ts \ {h} |-> ts[k]]

FreeHandles(ts) == (1..MaxTimers) \ DOMAIN ts

setTimeout(ts, delay) ==
    LET h == CHOOSE i \in FreeHandles(ts) : \A j \in FreeHandles(ts) : i <= j
    IN  [handle |-> h,
         timers |-> [k \in DOMAIN ts \cup {h} |-> IF k = h THEN delay ELSE ts[k]]]

\* The input listener of #filter-symbol (lines 734-737): the operator has
\* changed the value to v.
Edit(v) ==
    /\ ~unloaded
    /\ listener = "input"
    /\ loadAlertsRuns
    /\ v # symbol
    /\ FreeHandles(clearTimeout(timers, debounce)) # {}
    /\ symbol' = v
    /\ LET set == setTimeout(clearTimeout(timers, debounce), DebounceMs)
       IN  /\ debounce' = set.handle
           /\ timers' = set.timers
    /\ sinceInput' = 0
    /\ UNCHANGED <<listener, committed>>
    /\ UNCHANGED <<apiVars, healthVars, loginVars, moreVars>>
    /\ UNCHANGED <<catalog, path, hasRecent, domFirst, token, navCount, unloaded, uncaught,
                   sessionOk, watched, net, alerts, monitors, recent, objAoi, detailItem,
                   backdrop, scrollLock, cta>>

\* The operator has changed the value of #filter-symbol to v on a page of
\* the table-only script, which has no listener for input events.
Type(v) ==
    /\ ~unloaded
    /\ listener = "change"
    /\ loadAlertsRuns
    /\ v # symbol
    /\ symbol' = v
    /\ sinceInput' = 0
    /\ UNCHANGED <<listener, committed, debounce, timers>>
    /\ UNCHANGED <<apiVars, healthVars, loginVars, moreVars>>
    /\ UNCHANGED <<catalog, path, hasRecent, domFirst, token, navCount, unloaded, uncaught,
                   sessionOk, watched, net, alerts, monitors, recent, objAoi, detailItem,
                   backdrop, scrollLock, cta>>

\* The change listener of #filter-symbol in the table-only script
\* (src/unnamed/part_001, lines 318-322): the field is committed (Enter or
\* loss of focus) with a value other than the one last committed, and
\* loadAlerts(false) runs at once up to its await.
Change ==
    /\ ~unloaded
    /\ listener = "change"
    /\ loadAlertsRuns
    /\ symbol # committed
    /\ Len(net) < MaxInflight
    /\ committed' = symbol
    /\ alerts' = tableOnlyPlaceholder(alerts, FALSE)
    /\ net' = loadAlertsRequestWith(net, getToken, tableOnlyParams)
    /\ UNCHANGED <<symbol, listener, debounce, timers, sinceInput>>
    /\ UNCHANGED <<apiVars, healthVars, loginVars, moreVars>>
    /\ UNCHANGED <<catalog, path, hasRecent, domFirst, token, navCount, unloaded, uncaught,
                   sessionOk, watched, monitors, recent, objAoi, detailItem,
                   backdrop, scrollLock, cta>>

\* One step of the clock.
Elapse ==
    /\ ~unloaded
    /\ sinceInput < DebounceMs \/ \E h \in DOMAIN timers : timers[h] > 0
    /\ timers' = [h \in DOMAIN timers |->
                     IF timers[h] > StepMs THEN timers[h] - StepMs ELSE 0]
    /\ sinceInput' = IF sinceInput + StepMs < DebounceMs THEN sinceInput + StepMs
                     ELSE DebounceMs
    /\ UNCHANGED <<symbol, listener, committed, debounce>>
    /\ UNCHANGED <<apiVars, healthVars, loginVars, moreVars>>
    /\ UNCHANGED <<catalog, path, hasRecent, domFirst, token, navCount, unloaded, uncaught,
                   sessionOk, watched, net, alerts, monitors, recent, objAoi, detailItem,
                   backdrop, scrollLock, cta>>

\* The timeout of handle h is due: its callback runs loadAlerts(false)
\* (line 736).
DebounceFire(h) ==
    /\ ~unloaded
    /\ h \in DOMAIN timers
    /\ timers[h] = 0
    /\ Len(net) < MaxInflight
    /\ timers' = clearTimeout(timers, h)
    /\ alerts' = loadAlertsPlaceholder(alerts, FALSE)
    /\ net' = loadAlertsRequest(net, getToken)
    /\ UNCHANGED <<symbol, listener, committed, debounce, sinceInput>>
    /\ UNCHANGED <<apiVars, healthVars, loginVars, moreVars>>
    /\ UNCHANGED <<catalog, path, hasRecent, domFirst, token, navCount, unloaded, uncaught,
                   sessionOk, watched, monitors, recent, objAoi, detailItem,
                   backdrop, scrollLock, cta>>

\* ------------------------------------------------------------- score sort
\* A click on a score-sort control that sets currentSortScore to sort:
\* refreshSortUI() and loadAlerts(false) up to its await (lines 781-783,
\* 790-792).
SortTo(sort) ==
    /\ ~unloaded
    /\ ~backdrop
    /\ loadAlertsRuns
    /\ Len(net) < MaxInflight
    /\ currentSortScore' = sort
    /\ sortIcon' = refreshSortIcon(sort)
    /\ mobileSort' = refreshMobileSort(sort)
    /\ UNCHANGED <<currentTypeFilter, typeActive>>
    /\ alerts' = loadAlertsPlaceholder(alerts, FALSE)
    /\ net' = loadAlertsRequestWith(net, getToken, [loadAlertsParams EXCEPT !.sort_score = sort])
    /\ UNCHANGED <<filterVars, apiVars, healthVars, loginVars, bootVars, renderVars>>
    /\ UNCHANGED <<catalog, path, hasRecent, domFirst, token, navCount, unloaded, uncaught,
                   sessionOk, watched, monitors, recent, objAoi, detailItem,
                   backdrop, scrollLock, cta>>

\* ------------------------------------------------------------ type filter
\* The .type-filter-btn elements, each named by its data-type ("" on the
\* button for all types).
TypeButtons == {"", "C", "P"}

\* A listener that marks the clicked button and leaves the others alone.
KeepActive(active, btn) == active \cup {btn}

\* Lines 744-749: the buttons with class active after a click on btn.
typeBtnsAfter(active, btn) == (active \ TypeButtons) \cup {btn}

\* The click listener of a type button (lines 743-752): the marks, the
\* value and loadAlerts(false) up to its await.
ClickType(btn) ==
    /\ ~unloaded
    /\ ~backdrop
    /\ loadAlertsRuns
    /\ Len(net) < MaxInflight
    /\ typeActive' = typeBtnsAfter(typeActive, btn)
    /\ currentTypeFilter' = btn
    /\ alerts' = loadAlertsPlaceholder(alerts, FALSE)
    /\ net' = loadAlertsRequestWith(net, getToken, [loadAlertsParams EXCEPT !.type = btn])
    /\ UNCHANGED <<currentSortScore, sortIcon, mobileSort>>
    /\ UNCHANGED <<filterVars, apiVars, healthVars, loginVars, bootVars, renderVars>>
    /\ UNCHANGED <<catalog, path, hasRecent, domFirst, token, navCount, unloaded, uncaught,
                   sessionOk, watched, monitors, recent, objAoi, detailItem,
                   backdrop, scrollLock, cta>>

\* The click listener of #th-score (lines 780-784).
ClickThScore == SortTo(thScoreNext(currentSortScore))

\* The click listener of #mobile-sort-score (lines 788-793).
ClickMobileSort == SortTo(mobileSortNext(currentSortScore))

Next ==
    \/ Tick
    \/ HealthAnswered
    \/ ExpireSession
    \/ Unload
    \/ closeDetailPopup
    \/ detailCtaClick
    \/ \E i \in DOMAIN net : ServeToggle(i)
    \/ \E i \in DOMAIN net : \E a \in Arrivals(net[i]) : DeliverAlerts(i, a)
    \/ \E i \in DOMAIN net : \E a \in Arrivals(net[i]) : DeliverMonitors(i, a)
    \/ \E i \in DOMAIN net : \E a \in Arrivals(net[i]) : DeliverRecent(i, a)
    \/ \E i \in DOMAIN net : \E a \in Arrivals(net[i]) : DeliverToggle(i, a)
    \/ \E i \in DOMAIN net : \E a \in Arrivals(net[i]) : DeliverCta(i, a)
    \/ \E l \in Layouts, k \in Keys : ClickStar(l, k)
    \/ \E l \in Layouts, k \in Keys : ClickRemove(l, k)
    \/ \E l \in Layouts, k \in Keys : OpenAlertDetail(l, k)
    \/ \E k \in Keys : OpenRecentDetail(k)
    \/ \E l \in Layouts, k \in Keys : OpenMonitorDetail(l, k)

Spec == Init /\ [][Next]_vars

\* Requests are eventually answered and the interval timer keeps firing: the
\* oldest awaited request always gets its response in the end, so every
\* request does.  The operator and the backend are under no obligation.
DeliverAt(i) ==
    /\ i \in DOMAIN net
    /\ \E a \in Arrivals(net[i]) :
          \/ DeliverAlerts(i, a)
          \/ DeliverMonitors(i, a)
          \/ DeliverRecent(i, a)
          \/ DeliverToggle(i, a)
          \/ DeliverCta(i, a)

\* ------------------------------------------------------- DOMContentLoaded
\* A gate that lets every document through.
GateNever(tok, pathname) == FALSE

\* Line 656: no credential is stored and the page is not the login page.
authGate(tok, pathname) == ~tok /\ pathname # LoginPage

\* The DOMContentLoaded handler (lines 654-811).  At the gate it assigns
\* location.href and returns (lines 657-658); past the gate it registers the
\* listeners, starts the foreground loads (lines 797-801) and the interval
\* (line 804).
DOMContentLoaded ==
    /\ domState = "loading"
    /\ IF authGate(getToken, path)
       THEN /\ domState' = "redirected"
            /\ UNCHANGED <<interval, net, alerts, monitors, recent, healthCalls>>
       ELSE /\ domState' = "ran"
            /\ interval' = TRUE
            /\ healthCalls' = updateHealthCall(healthCalls, getToken)
            /\ alerts' = loadAlertsPlaceholder(alerts, FALSE)
            /\ monitors' = loadMonitorsPlaceholder(monitors, FALSE)
            /\ recent' = loadTopRecentPlaceholder(recent, FALSE)
            /\ net' = loadTopRecentRequest(
                          loadMonitorsRequest(loadAlertsRequest(net, getToken), getToken),
                          getToken)
    /\ UNCHANGED <<healthTs, uwBadge, filterVars, apiVars, loginVars, sortVars, renderVars>>
    /\ UNCHANGED <<catalog, path, hasRecent, domFirst, token, navCount, unloaded, uncaught,
                   sessionOk, watched, objAoi, detailItem, backdrop, scrollLock, cta>>

\* ---------------------------------------------------------------- login form
\* A click on a .logout-btn (line 717): logout().
ClickLogout ==
    /\ ~unloaded
    /\ path # LoginPage
    /\ navCount < MaxNav
    /\ token' = logoutToken
    /\ navCount' = logoutNav(navCount)
    /\ UNCHANGED sideVars
    /\ UNCHANGED <<catalog, path, hasRecent, domFirst, unloaded, uncaught, sessionOk, watched,
                   net, alerts, monitors, recent, objAoi, detailItem, backdrop, scrollLock,
                   cta>>

\* Lines 685-689: the login request is sent by fetch itself with a
\* Content-Type header only, whatever credential is stored.
loginRequestAuth(tok) == FALSE

\* The submit listener up to its await (lines 677-689); auth: the request
\* carries a bearer credential.
SubmitLogin ==
    /\ ~unloaded
    /\ path = LoginPage
    /\ loginForm.btn = "enabled"
    /\ ~loginForm.pending
    /\ loginForm' = [loginForm EXCEPT !.btn = "disabled", !.pending = TRUE,
                                      !.auth = loginRequestAuth(getToken)]
    /\ UNCHANGED <<homeNav, filterVars, apiVars, healthVars, moreVars>>
    /\ UNCHANGED <<catalog, path, hasRecent, domFirst, token, navCount, unloaded, uncaught,
                   sessionOk, watched, net, alerts, monitors, recent, objAoi, detailItem,
                   backdrop, scrollLock, cta>>

\* What may arrive for the login request: any outcome of fetch; isNull: the
\* body parses to null; grant: the body has ok and a token, which the
\* backend sends with status 200 only.
LoginArrivals ==
    {x \in [o : Outcomes, grant : BOOLEAN, isNull : BOOLEAN] :
        /\ x.grant => x.o.net = "ok" /\ x.o.status = 200 /\ x.o.json /\ ~x.isNull
        /\ x.isNull => x.o.net = "ok" /\ x.o.json}

\* A handler that signs in on any body that parses.
LoginAnyBody(a) ==
    IF a.o.net = "error" \/ ~a.o.json THEN "connection" ELSE "granted"

\* Lines 690-701: which branch the handler takes.  "granted": the body has
\* ok and a token (line 691); "invalid": it parses and has not (line 694);
\* "connection": fetch or res.json() threw, or the body is null and the
\* read of data.ok on line 691 threw (line 698).
loginResult(a) ==
    IF a.o.net = "error" \/ ~a.o.json \/ a.isNull THEN "connection"
    ELSE IF a.grant THEN "granted" ELSE "invalid"

\* The submit listener after its await (lines 690-701).  The status is not
\* looked at: a body that parses and has ok and a token signs in, any other
\* body but null is a refusal, and an exception of fetch, of res.json() or
\* of the read of a null body is a connection error.
DeliverLogin(a) ==
    /\ ~unloaded
    /\ loginForm.pending
    /\ a \in LoginArrivals
    /\ IF loginResult(a) = "connection"
       THEN /\ loginForm' = [loginForm EXCEPT !.btn = "enabled", !.pending = FALSE,
                                              !.error = "connection"]
            /\ UNCHANGED <<token, homeNav>>
       ELSE IF loginResult(a) = "granted"
       THEN /\ token' = TRUE
            /\ homeNav' = homeNav + 1
            /\ loginForm' = [loginForm EXCEPT !.pending = FALSE]
       ELSE /\ loginForm' = [loginForm EXCEPT !.btn = "enabled", !.pending = FALSE,
                                              !.error = "invalid"]
            /\ UNCHANGED <<token, homeNav>>
    /\ UNCHANGED <<filterVars, apiVars, healthVars, moreVars>>
    /\ UNCHANGED <<catalog, path, hasRecent, domFirst, navCount, unloaded, uncaught,
                   sessionOk, watched, net, alerts, monitors, recent, objAoi, detailItem,
                   backdrop, scrollLock, cta>>

\* ------------------------------------------------- a page with its health chips
\* The alert page at the end of the DOMContentLoaded handler; updateHealth
\* (line 797) has been called.
PageInit ==
    /\ FilterIdle /\ ApiIdle /\ LoginIdle /\ SortIdle /\ BootDone /\ RenderIdle
    /\ InitIn({Config("index", FALSE, "cards", {})})

PageNext ==
    \/ Tick
    \/ ExpireSession
    \/ Unload
    \/ HealthAnswered
    \/ \E i \in DOMAIN net : \E a \in Arrivals(net[i]) : DeliverAlerts(i, a)

PageSpec == PageInit /\ [][PageNext]_vars

\* The login page, reached with or without a stored credential, at the end
\* of the DOMContentLoaded handler: none of the lists loads, updateHealth
\* (line 797) has been called and is called again by the interval.
LoginInit ==
    /\ FilterIdle /\ ApiIdle /\ LoginIdle /\ SortIdle /\ BootDone /\ RenderIdle /\ Quiet
    /\ path = LoginPage
    /\ token \in BOOLEAN
    /\ healthCalls = updateHealthCall(<< >>, getToken)
    /\ healthTs = "static"
    /\ uwBadge = "static"

LoginNext ==
    \/ Tick
    \/ ExpireSession
    \/ SubmitLogin
    \/ Unload
    \/ \E a \in LoginArrivals : DeliverLogin(a)
    \/ HealthAnswered

LoginSpec == LoginInit /\ [][LoginNext]_vars

\* ------------------------------------------------------ one call of fetchApi
\* fetchApi is called on some page, with or without a stored credential,
\* and fetch does one of the things it can do.
ApiInit ==
    /\ FilterIdle /\ HealthIdle /\ LoginIdle /\ SortIdle /\ BootDone /\ RenderIdle /\ Quiet
    /\ path \in Pages \cup {LoginPage}
    /\ token \in BOOLEAN
    /\ \E o \in Outcomes : probe = [o |-> o, out |-> NoOut, called |-> FALSE]

\* The call runs to its return (lines 47-56).
CallFetchApi ==
    /\ ~probe.called
    /\ LET out == fetchApiHttp(probe.o, path)
       IN  /\ probe' = [probe EXCEPT !.out = out, !.called = TRUE]
           /\ token' = IF out.logout THEN logoutToken ELSE token
           /\ navCount' = IF out.logout THEN logoutNav(navCount) ELSE navCount
    /\ UNCHANGED <<filterVars, healthVars, loginVars, moreVars>>
    /\ UNCHANGED <<catalog, path, hasRecent, domFirst, unloaded, uncaught, sessionOk, watched,
                   net, alerts, monitors, recent, objAoi, detailItem, backdrop, scrollLock,
                   cta>>

ApiNext == CallFetchApi

ApiSpec == ApiInit /\ [][ApiNext]_vars

\* The alert page with its symbol filter, under either script: typing, the
\* clock, the debounce timeout, a committed change, the poller and the
\* responses to the alert requests and to updateHealth.
FilterInit == FilterIdleIn(Listeners) /\ ApiIdle /\ LoginIdle /\ SortIdle /\ BootDone /\ RenderIdle /\ InitIn({Config("index", FALSE, "cards", {"A"})})

FilterNext ==
    \/ \E v \in Symbols : Edit(v)
    \/ \E v \in Symbols : Type(v)
    \/ Change
    \/ Elapse
    \/ \E h \in 1..MaxTimers : DebounceFire(h)
    \/ Tick
    \/ HealthOk
    \/ \E i \in DOMAIN net : \E a \in Arrivals(net[i]) : DeliverAlerts(i, a)

FilterSpec == FilterInit /\ [][FilterNext]_vars

\* The three list panels under everything that loads them: the poller, the
\* symbol filter with its foreground reloads, responses and failures.  The
\* credential stays accepted here: a rejected call reaches the panels as
\* the same null a failed one does.
PanelInit ==
    /\ FilterIdle /\ ApiIdle /\ LoginIdle /\ SortIdle /\ BootDone /\ RenderIdle
    /\ InitIn({Config("index", FALSE, "cards", c) : c \in {{}, {"A"}}}
              \cup {Config("monitor", TRUE, "cards", {"A"})})

PanelNext ==
    \/ Tick
    \/ HealthOk
    \/ \E v \in Symbols : Edit(v)
    \/ Elapse
    \/ \E h \in 1..MaxTimers : DebounceFire(h)
    \/ \E i \in DOMAIN net : \E a \in Arrivals(net[i]) : DeliverAlerts(i, a)
    \/ \E i \in DOMAIN net : \E a \in Arrivals(net[i]) : DeliverMonitors(i, a)
    \/ \E i \in DOMAIN net : \E a \in Arrivals(net[i]) : DeliverRecent(i, a)

PanelSpec == PanelInit /\ [][PanelNext]_vars

\* The alert list and the monitor list in their two layouts, with no item
\* or with two: the poller, the score sort of the table header, the
\* remove buttons of the monitor list and the responses, failures included.
LayoutInit ==
    /\ FilterIdle /\ ApiIdle /\ LoginIdle /\ SortIdle /\ BootDone /\ RenderIdle
    /\ InitIn({Config("index", FALSE, "cards", c) : c \in {{}, {"A", "B"}}}
              \cup {Config("monitor", FALSE, "cards", {"A", "B"})})

LayoutNext ==
    \/ Tick
    \/ HealthOk
    \/ ClickThScore
    \/ \E l \in Layouts, k \in Keys : ClickRemove(l, k)
    \/ \E i \in DOMAIN net : ServeToggle(i)
    \/ \E i \in DOMAIN net : \E a \in Arrivals(net[i]) : DeliverToggle(i, a)
    \/ \E i \in DOMAIN net : \E a \in Arrivals(net[i]) : DeliverAlerts(i, a)
    \/ \E i \in DOMAIN net : \E a \in Arrivals(net[i]) : DeliverMonitors(i, a)

LayoutSpec == LayoutInit /\ [][LayoutNext]_vars

\* The alert page with its two score-sort controls and its type buttons,
\* two alerts known to the backend, the poller and the responses to the
\* alert requests.
SortInit ==
    /\ FilterIdle /\ ApiIdle /\ LoginIdle /\ SortIdle /\ BootDone /\ RenderIdle
    /\ InitIn({Config("index", FALSE, "cards", {"A", "B"})})

SortNext ==
    \/ ClickThScore
    \/ ClickMobileSort
    \/ \E btn \in TypeButtons : ClickType(btn)
    \/ Tick
    \/ HealthOk
    \/ \E i \in DOMAIN net : \E a \in Arrivals(net[i]) : DeliverAlerts(i, a)

SortSpec == SortInit /\ [][SortNext]_vars

\* The detail overlay with its three close triggers, on the alert page and
\* on the monitor page.
OverlayInit ==
    /\ FilterIdle /\ ApiIdle /\ LoginIdle /\ SortIdle /\ BootDone /\ RenderIdle
    /\ InitIn({Config("index", FALSE, "cards", {"A"}), Config("monitor", FALSE, "cards", {"A"})})

OverlayNext ==
    \/ Tick
    \/ HealthOk
    \/ ClickDetailClose
    \/ \E target \in ClickTargets : ClickBackdrop(target)
    \/ \E key \in KeysPressed : KeyDown(key)
    \/ detailCtaClick
    \/ \E i \in DOMAIN net : ServeToggle(i)
    \/ \E i \in DOMAIN net : \E a \in Arrivals(net[i]) : DeliverAlerts(i, a)
    \/ \E i \in DOMAIN net : \E a \in Arrivals(net[i]) : DeliverMonitors(i, a)
    \/ \E i \in DOMAIN net : \E a \in Arrivals(net[i]) : DeliverCta(i, a)
    \/ \E l \in Layouts, k \in Keys : OpenAlertDetail(l, k)
    \/ \E l \in Layouts, k \in Keys : OpenMonitorDetail(l, k)

OverlaySpec == OverlayInit /\ [][OverlayNext]_vars

\* A document of any page, with or without a stored credential, from the
\* moment its DOMContentLoaded event is due.
GateInit ==
    /\ FilterIdle /\ ApiIdle /\ HealthIdle /\ LoginIdle /\ SortIdle /\ RenderIdle /\ Quiet
    /\ path \in Pages \cup {LoginPage}
    /\ token \in BOOLEAN
    /\ domState = "loading"
    /\ interval = FALSE

GateNext ==
    \/ DOMContentLoaded
    \/ Unload
    \/ Tick
    \/ HealthAnswered
    \/ \E i \in DOMAIN net : \E a \in Arrivals(net[i]) : DeliverAlerts(i, a)
    \/ \E i \in DOMAIN net : \E a \in Arrivals(net[i]) : DeliverMonitors(i, a)

GateSpec == GateInit /\ [][GateNext]_vars

\* The session: the login page, reached with or without a credential, and
\* the alert page of a signed-in operator, with the login form, the logout
\* button, the poller and the responses.
SessionInit == LoginInit \/ PageInit

SessionNext ==
    \/ Tick
    \/ SubmitLogin
    \/ ClickLogout
    \/ Unload
    \/ \E a \in LoginArrivals : DeliverLogin(a)
    \/ HealthAnswered
    \/ \E i \in DOMAIN net : \E a \in Arrivals(net[i]) : DeliverAlerts(i, a)

SessionSpec == SessionInit /\ [][SessionNext]_vars

\* ------------------------------------------------------------ the renderers
\* The item objects rendered: alerts with any volume and open interest,
\* present or not, alerts with any tags string of up to MaxTags entries,
\* alerts with a score at and around the thresholds or none, and monitored
\* contracts with a score_history of any length whose samples are numbered
\* in the order they were taken.
MaxTags == 2
Scores == {Absent, 0, 59, 60, 61, 84, 85, 86, 100}
TagStrings == UNION {[1..n -> Entries] : n \in 1..MaxTags}

Alert(v, o, ts, sc) ==
    [what |-> "alert", volume |-> v, oi |-> o, score_history |-> << >>,
     tags |-> ts, score_total |-> sc]

AlertObjects ==
    {Alert(v, o, NoTags, Absent) : v \in {Absent} \cup 0..MaxVolume, o \in {Absent} \cup 0..MaxOI}
    \cup {Alert(Absent, Absent, ts, Absent) : ts \in TagStrings}
    \cup {Alert(Absent, Absent, NoTags, sc) : sc \in Scores}

MonitorObjects ==
    {[what |-> "monitor", volume |-> Absent, oi |-> Absent,
      score_history |-> [i \in 1..n |-> i], tags |-> NoTags, score_total |-> Absent] :
        n \in 0..MaxHist}

RenderInit ==
    /\ FilterIdle /\ ApiIdle /\ HealthIdle /\ LoginIdle /\ SortIdle /\ BootDone /\ Quiet
    /\ path \in Pages
    /\ token = TRUE
    /\ item \in AlertObjects \cup MonitorObjects
    /\ shown = NothingShown

\* The key of the rendered item, which no panel holds and which is not
\* marked as watched.
ItemKey == "A"

\* What a function that renders the item leaves alone, the overlay apart.
RenderOnly ==
    /\ UNCHANGED <<filterVars, apiVars, healthVars, loginVars, sortVars, bootVars>>
    /\ UNCHANGED <<catalog, path, hasRecent, domFirst, token, navCount, unloaded, uncaught,
                   sessionOk, watched, net, alerts, monitors, recent, objAoi>>

\* What a renderer of a list leaves alone.
RenderInPlace ==
    /\ RenderOnly
    /\ UNCHANGED <<detailItem, backdrop, scrollLock, cta>>

\* renderAlertCard(item) (lines 216-217, 240, 262): split, filter and map
\* make new arrays, the item is only read.
RenderAlertCard ==
    /\ item.what = "alert" /\ path = "index"
    /\ shown.card = NotShown
    /\ shown' = [shown EXCEPT !.card = renderAlertCardVolOI(item),
                              !.tags.card = alertTags(item.tags),
                              !.chip.card = scoreColor(item.score_total)]
    /\ item' = item
    /\ RenderInPlace

\* renderAlertRow(item) (lines 290-291, 305, 309).
RenderAlertRow ==
    /\ item.what = "alert" /\ path = "index"
    /\ shown.row = NotShown
    /\ shown' = [shown EXCEPT !.row = renderAlertRowVolOI(item),
                              !.tags.row = alertTags(item.tags),
                              !.chip.row = scoreColor(item.score_total)]
    /\ item' = item
    /\ RenderInPlace

\* openDetailPopup(item) (lines 130-174): it holds the item (line 131),
\* fills the overlay (lines 142, 146, 163-165), sets the button by
\* item.is_aoi (line 168) and opens the overlay (lines 171-172).
RenderDetail ==
    /\ item.what = "alert" /\ path = "index"
    /\ shown.detail = NotShown
    /\ shown' = [shown EXCEPT !.detail = openDetailPopupVolOI(item),
                              !.tags.detail = alertTags(item.tags),
                              !.chip.detail = openDetailPopupChip(item.score_total)]
    /\ item' = item
    /\ detailItem' = [key |-> ItemKey, aoi |-> FALSE, live |-> "none"]
    /\ cta' = refreshDetailCta(FALSE)
    /\ backdrop' = TRUE
    /\ scrollLock' = TRUE
    /\ RenderOnly

\* The row of the table-only loadAlerts (src/unnamed/part_001, lines 129,
\* 133, 139).
RenderTableOnly ==
    /\ item.what = "alert" /\ path = "index"
    /\ shown.tableOnly = NotShown
    /\ shown' = [shown EXCEPT !.tableOnly = tableOnlyVolOI(item),
                              !.tags.tableOnly = tableOnlyTags(item.tags),
                              !.chip.tableOnly = tableOnlyScoreClass(item.score_total)]
    /\ item' = item
    /\ RenderInPlace

\* openMonitorDetailPopup(item) (lines 374-417): the trend (lines 391-413),
\* then the overlay is opened (lines 415-416).
RenderTrend ==
    /\ item.what = "monitor" /\ path = "monitor"
    /\ ~shown.opened
    /\ shown' = [shown EXCEPT !.trend = openMonitorDetailPopupTrend(item.score_history),
                              !.opened = TRUE]
    /\ item' = [item EXCEPT
                   !.score_history = openMonitorDetailPopupHistory(item.score_history)]
    /\ openMonitorDetailPopup
    /\ UNCHANGED <<detailItem, cta>>
    /\ RenderOnly

\* The sparkline of renderMonitorCard (line 467) and of renderMonitorRow
\* (line 498).
RenderInline(l) ==
    /\ item.what = "monitor" /\ path = "monitor"
    /\ ~shown.inline[l].drawn
    /\ shown' = [shown EXCEPT
                    !.inline[l] = [drawn |-> TRUE,
                                   points |-> generateSparklineSVG(item.score_history)]]
    /\ item' = [item EXCEPT
                   !.score_history = generateSparklineSVGHistory(item.score_history)]
    /\ RenderInPlace

RenderNext ==
    \/ RenderAlertCard
    \/ RenderAlertRow
    \/ RenderDetail
    \/ RenderTableOnly
    \/ RenderTrend
    \/ \E l \in Layouts : RenderInline(l)

RenderSpec == RenderInit /\ [][RenderNext]_vars

\* The detail overlay and its button on the alert page with two alerts: the
\* operator opens and closes the overlay and clicks its button, the backend
\* serves the toggles and the alert requests.
CtaInit ==
    /\ FilterIdle /\ ApiIdle /\ LoginIdle /\ SortIdle /\ BootDone /\ RenderIdle
    /\ InitIn({Config("index", FALSE, "cards", {"A", "B"})})

CtaNext ==
    \/ Tick
    \/ HealthOk
    \/ ClickDetailClose
    \/ detailCtaClick
    \/ \E i \in DOMAIN net : ServeToggle(i)
    \/ \E i \in DOMAIN net : \E a \in Arrivals(net[i]) : DeliverAlerts(i, a)
    \/ \E i \in DOMAIN net : \E a \in Arrivals(net[i]) : DeliverCta(i, a)
    \/ \E l \in Layouts, k \in Keys : OpenAlertDetail(l, k)

CtaSpec == CtaInit /\ [][CtaNext]_vars

\* The feeds under the detail overlay: the alert page with its recent panel
\* and the monitor page, the controls of the type and the sort, the poller
\* and every response to a feed request.
FeedInit ==
    /\ FilterIdle /\ ApiIdle /\ LoginIdle /\ SortIdle /\ BootDone /\ RenderIdle
    /\ InitIn({Config("index", TRUE, "cards", {"A"}), Config("monitor", FALSE, "cards", {"A"})})

FeedNext ==
    \/ Tick
    \/ HealthOk
    \/ ClickDetailClose
    \/ ClickThScore
    \/ \E btn \in TypeButtons : ClickType(btn)
    \/ \E i \in DOMAIN net : \E a \in Arrivals(net[i]) : DeliverAlerts(i, a)
    \/ \E i \in DOMAIN net : \E a \in Arrivals(net[i]) : DeliverMonitors(i, a)
    \/ \E i \in DOMAIN net : \E a \in Arrivals(net[i]) : DeliverRecent(i, a)
    \/ \E l \in Layouts, k \in Keys : OpenAlertDetail(l, k)
    \/ \E k \in Keys : OpenRecentDetail(k)
    \/ \E l \in Layouts, k \in Keys : OpenMonitorDetail(l, k)

FeedSpec == FeedInit /\ [][FeedNext]_vars

\* The stars of the alert list and the remove buttons of the monitor list
\* with the overlay's button: the clicks, the backend serving the toggles,
\* the refreshes they start, the poller and every response.
StarInit ==
    /\ FilterIdle /\ ApiIdle /\ LoginIdle /\ SortIdle /\ BootDone /\ RenderIdle
    /\ InitIn({Config("index", FALSE, "cards", {"A"}), Config("monitor", FALSE, "cards", {"A"})})

StarNext ==
    \/ Tick
    \/ HealthOk
    \/ closeDetailPopup
    \/ detailCtaClick
    \/ \E i \in DOMAIN net : ServeToggle(i)
    \/ \E i \in DOMAIN net : \E a \in Arrivals(net[i]) : DeliverAlerts(i, a)
    \/ \E i \in DOMAIN net : \E a \in Arrivals(net[i]) : DeliverMonitors(i, a)
    \/ \E i \in DOMAIN net : \E a \in Arrivals(net[i]) : DeliverToggle(i, a)
    \/ \E i \in DOMAIN net : \E a \in Arrivals(net[i]) : DeliverCta(i, a)
    \/ \E l \in Layouts, k \in Keys : ClickStar(l, k)
    \/ \E l \in Layouts, k \in Keys : ClickRemove(l, k)
    \/ \E l \in Layouts, k \in Keys : OpenAlertDetail(l, k)

StarSpec == StarInit /\ [][StarNext]_vars

\* Failures and what follows them: the alert page and the monitor page with
\* its recent panel, every list, the star and remove buttons and the
\* overlay with its button, the poller and responses that fail.
RecoverInit ==
    /\ FilterIdle /\ ApiIdle /\ LoginIdle /\ SortIdle /\ BootDone /\ RenderIdle
    /\ InitIn({Config("index", FALSE, "cards", {"A"}), Config("monitor", TRUE, "cards", {"A"})})

RecoverNext ==
    \/ StarNext
    \/ \E i \in DOMAIN net : \E a \in Arrivals(net[i]) : DeliverRecent(i, a)
    \/ \E k \in Keys : OpenRecentDetail(k)
    \/ \E l \in Layouts, k \in Keys : OpenMonitorDetail(l, k)

RecoverSpec == RecoverInit /\ [][RecoverNext]_vars

\* The same with the interval timer firing again and again and every
\* request, of the lists and of updateHealth, answered in the end.
FairSpec ==
    StarInit /\ [][StarNext]_vars /\ WF_vars(Tick) /\ WF_vars(HealthOk) /\ WF_vars(DeliverAt(1))

\* ===================================================================
\* Claims
\* ===================================================================
InFlight(fns) == {i \in DOMAIN net : net[i].fn \in fns}

\* The star (or remove button) of contract k in layout l, and the overlay's
\* button, as the operator finds them.
StarShown(l, k) == alerts[l].st = "items" /\ k \in alerts[l].keys
RemoveShown(l, k) == monitors[l].st = "items" /\ k \in monitors[l].keys

\* C1: for every feed, the response of a request that a later request of the
\* same feed superseded before it arrived is discarded: no panel ever shows
\* content written by such a response.
C1_OnlyLatestApplied ==
    /\ \A l \in Layouts : ~alerts[l].stale /\ ~monitors[l].stale
    /\ ~recent.stale

\* C2: however many calls are rejected with 401, logout() navigates to the
\* login view once in total.
C2_LogoutOnce == navCount <= 1

\* C3: a toggle disables the control that was clicked at once, and once the
\* toggle and the refresh it starts are through, every star shown says what
\* the backend's watch list says.
C3_ControlFollowsRefresh ==
    /\ [](InFlight(ToggleFns \cup {"loadAlerts"}) = {}
          => \A l \in Layouts, k \in Keys :
                StarShown(l, k) => ((k \in alerts[l].aoi) <=> (k \in watched)))
    /\ [][/\ \A l \in Layouts, k \in Keys :
                ClickStar(l, k) => k \in alerts'[l].disabled
          /\ \A l \in Layouts, k \in Keys :
                ClickRemove(l, k) => k \in monitors'[l].disabled]_vars

\* C4: while a toggle's call is in flight, the control that started it is
\* disabled wherever it is shown, a refresh in between notwithstanding.
C4_ControlStaysDisabled ==
    \A i \in InFlight(ToggleFns) :
        LET r == net[i]
        IN  CASE r.via = "cta" -> cta.disabled
              [] path = "index" -> StarShown(r.via, r.ck) => r.ck \in alerts[r.via].disabled
              [] OTHER -> RemoveShown(r.via, r.ck) => r.ck \in monitors[r.via].disabled

\* C5: once nothing is in flight any more, every contract is displayed as
\* watched exactly if the backend has it on the watch list: the stars of the
\* alert list and the rows of the monitor list agree with it.
C5_SettledDisplayAgrees ==
    net = <<>> =>
        /\ \A l \in Layouts, k \in Keys :
              StarShown(l, k) => ((k \in alerts[l].aoi) <=> (k \in watched))
        /\ \A l \in Layouts :
              monitors[l].st \in {"items", "empty"} => monitors[l].keys = watched

\* C6: the response to the overlay's toggle that arrives with the overlay
\* closed is discarded: it changes nothing of the overlay and raises no error.
C6_ResponseAfterCloseDiscarded ==
    [][(~backdrop /\ \E i \in DOMAIN net : \E a \in Arrivals(net[i]) : DeliverCta(i, a))
          => (UNCHANGED <<detailItem, cta, backdrop, scrollLock>> /\ ~uncaught')]_vars

\* C7: a feed's call rejected with 401 leaves every panel as it was.
C7_RejectedCallNoUpdate ==
    [][\A i \in DOMAIN net :
          LET a == Resp("401", {}, {})
          IN  (DeliverAlerts(i, a) \/ DeliverMonitors(i, a) \/ DeliverRecent(i, a))
                 => UNCHANGED <<alerts, monitors, recent>>]_vars

\* C8: when a toggle's call is through, failed or not, from a list control or
\* from the overlay, a refresh of the dependent collection is requested: of
\* the monitor list on the monitor view, of the alert list otherwise.
C8_ToggleThenRefresh ==
    [][(\E i \in DOMAIN net : \E a \in Arrivals(net[i]) :
            DeliverToggle(i, a) \/ DeliverCta(i, a))
          => /\ net' # <<>>
             /\ net'[Len(net')].res.kind = "pending"
             /\ net'[Len(net')].fn =
                   IF path = "monitor" THEN "loadMonitors" ELSE "loadAlerts"]_vars

\* C9: a control disabled by a toggle is enabled again, or replaced, in the
\* end: the stars of the list and the overlay's button alike.
C9_DisabledControlRecovers ==
    /\ cta.disabled ~> ~cta.disabled
    /\ \A l \in Layouts, k \in Keys :
          (k \in alerts[l].disabled) ~> (k \notin alerts[l].disabled)

\* C10: the refresh that resolves after a toggle overwrites the overlay's
\* local flip: once an alert response with items has been applied, an open
\* overlay shows for its contract what that response says.
C10_RefreshOverwritesFlip ==
    [][\A i \in DOMAIN net : \A a \in Arrivals(net[i]) :
          (DeliverAlerts(i, a) /\ hasItems(fetchApi(a)) /\ detailItem'.key \in a.keys)
             => /\ detailItem'.aoi <=> (detailItem'.key \in a.aoi)
                /\ cta'.mode = IF detailItem'.key \in a.aoi THEN "remove" ELSE "add"]_vars

\* C12: the refresh timer is stopped when the view is torn down: once
\* logout() has started the navigation to the login view, no run of the
\* interval callback issues a request any more.
C12_NoPollAfterTeardown == [][Tick => navCount = 0]_vars

\* C13: the page starts with one foreground request of every feed that
\* applies to it, the feed's panel showing the loading placeholder; a panel
\* leaves the placeholder only when a response of its feed is applied (or the
\* document goes); and no run of the interval callback touches a panel.
C13_ForegroundOnceThenBackground ==
    /\ \A l \in Layouts :
          /\ alerts[l].st = (IF loadAlertsRuns THEN "loading" ELSE "static")
          /\ monitors[l].st = (IF loadMonitorsRuns THEN "loading" ELSE "static")
    /\ recent.st = (IF loadTopRecentRuns THEN "loading" ELSE "static")
    /\ Cardinality(InFlight({"loadAlerts"})) = (IF loadAlertsRuns THEN 1 ELSE 0)
    /\ Cardinality(InFlight({"loadMonitors"})) = (IF loadMonitorsRuns THEN 1 ELSE 0)
    /\ Cardinality(InFlight({"loadTopRecent"})) = (IF loadTopRecentRuns THEN 1 ELSE 0)
    /\ [][Tick => UNCHANGED <<alerts, monitors, recent>>]_vars
    /\ [][\A l \in Layouts :
            /\ (alerts[l].st = "loading" /\ alerts'[l].st # "loading")
                  => (unloaded' \/ \E i \in DOMAIN net : \E a \in Arrivals(net[i]) :
                                      DeliverAlerts(i, a))
            /\ (monitors[l].st = "loading" /\ monitors'[l].st # "loading")
                  => (unloaded' \/ \E i \in DOMAIN net : \E a \in Arrivals(net[i]) :
                                      DeliverMonitors(i, a))
            /\ (recent.st = "loading" /\ recent'.st # "loading")
                  => (unloaded' \/ \E i \in DOMAIN net : \E a \in Arrivals(net[i]) :
                                      DeliverRecent(i, a))]_vars

\* The timer has fired while the foreground request of the alert list is
\* still awaited, the panel showing its placeholder.
C13_TickWhileLoading ==
    /\ path = "index"
    /\ alerts["cards"].st = "loading"
    /\ Cardinality(InFlight({"loadAlerts"})) = 2

\* C14: edits of the symbol filter are debounced.  An edit issues no request
\* and arms the timeout with the full delay; a listener of the field reloads
\* the alerts only when the delay has passed since the last edit; the
\* timeout's callback runs only then, it is the only one pending,
\* and the request it issues is an alert request carrying the value the input
\* has at that moment.
C14_Debounced ==
    /\ [][symbol' # symbol => net' = net /\ alerts' = alerts]_vars
    /\ [][Change => sinceInput >= DebounceMs]_vars
    /\ [][\A v \in Symbols :
            Edit(v) => /\ net' = net
                       /\ alerts' = alerts
                       /\ debounce' \in DOMAIN timers'
                       /\ timers'[debounce'] = DebounceMs]_vars
    /\ [][\A h \in 1..MaxTimers :
            DebounceFire(h) => /\ sinceInput >= DebounceMs
                               /\ DOMAIN timers' = {}
                               /\ Len(net') = Len(net) + 1
                               /\ net'[Len(net')].fn = "loadAlerts"
                               /\ net'[Len(net')].q.symbol = symbol]_vars

\* C15: fetchApi never throws to its caller, and for a transport failure as
\* for a payload that is not JSON it returns null.
C15_NeverThrows ==
    probe.called =>
        /\ ~probe.out.threw
        /\ probe.out.ret \in {"null", "body"}
        /\ (probe.o.net = "error" \/ ~probe.o.json) => probe.out.ret = "null"

\* A call has returned whose response had status 200 and a body that is not
\* JSON.
C15_MalformedReturned ==
    /\ probe.called
    /\ probe.o.net = "ok" /\ probe.o.status = 200 /\ ~probe.o.json
    /\ probe.out.ret = "null"

\* C16: a response with a status outside 200..299 yields null to the caller,
\* with or without a JSON body.
C16_FailuresNormalized ==
    (probe.called /\ probe.o.net = "ok" /\ probe.o.status \notin 200..299)
        => probe.out.ret = "null"

\* C11: feeds are independent: a response that has arrived is applied
\* without waiting for the response of another feed.  No run of updateHealth
\* holds the answer of one of its two requests while the other request is
\* still pending.
C11_FeedsIndependent ==
    \A j \in DOMAIN healthCalls :
        (healthCalls[j].data = "pending") <=> (healthCalls[j].uw = "pending")

\* C17: on the login view no response, a 401 included, clears the credential
\* or starts the navigation of logout().
C17_LoginViewNoLogout ==
    /\ [](path = LoginPage => navCount = 0)
    /\ [][path = LoginPage => (token => token')]_vars

\* On the login view a fetchApi call has been answered 401 (its body went
\* to the caller) and the login request has been refused.
C17_RejectedOnLogin ==
    /\ path = LoginPage
    /\ \E j \in DOMAIN healthCalls : healthCalls[j].data = "other"
    /\ loginForm.error = "invalid"
    /\ token

\* The render states a container shows: a populated list is one with items.
RenderStates == {"loading", "error", "empty", "populated"}

Shows(v) ==
    {x \in RenderStates :
        \/ x = "populated" /\ v.st = "items" /\ v.keys # {}
        \/ x # "populated" /\ v.st = x}

\* C18: every panel the page loads is in exactly one of the render states
\* loading, error, empty, populated, in each of its containers.
C18_ExactlyOneRenderState ==
    ~unloaded =>
        /\ loadAlertsRuns => \A l \in Layouts : Cardinality(Shows(alerts[l])) = 1
        /\ loadMonitorsRuns => \A l \in Layouts : Cardinality(Shows(monitors[l])) = 1
        /\ loadTopRecentRuns => Cardinality(Shows(recent)) = 1

\* A filter change has put the alert list back into loading: the only
\* request awaited is the one that carries the typed symbol.
C18_ReloadAfterFilterChange ==
    /\ \A l \in Layouts : alerts[l].st = "loading"
    /\ Len(net) = 1
    /\ net[1].fn = "loadAlerts" /\ net[1].q.symbol = "SP"

\* C19: in every panel a failed fetch gives the error state and a fetch
\* with zero items the empty state.
C19_ErrorAndEmptyDistinct ==
    [][\A i \in DOMAIN net : \A a \in Arrivals(net[i]) :
          LET want == IF ~hasItems(fetchApi(a)) THEN "error"
                      ELSE IF a.keys = {} THEN "empty" ELSE "items"
          IN  /\ DeliverAlerts(i, a) => \A l \in Layouts : alerts'[l].st = want
              /\ DeliverMonitors(i, a) => \A l \in Layouts : monitors'[l].st = want
              /\ DeliverRecent(i, a) => recent'.st = want]_vars

\* C20: the compact and the tabular container of a panel are in the same
\* render state and list the same items in the same order, a response
\* changes both together, and a response with items: [] puts both into the
\* empty state.
C20_LayoutsAgree ==
    /\ [](/\ alerts["cards"].st = alerts["table"].st
          /\ alerts["cards"].seq = alerts["table"].seq
          /\ alerts["cards"].keys = alerts["table"].keys
          /\ alerts["cards"].aoi = alerts["table"].aoi
          /\ monitors["cards"].st = monitors["table"].st
          /\ monitors["cards"].seq = monitors["table"].seq
          /\ monitors["cards"].keys = monitors["table"].keys)
    /\ [][\A i \in DOMAIN net : \A a \in Arrivals(net[i]) :
            /\ DeliverAlerts(i, a) => alerts'["cards"] = alerts'["table"]
            /\ DeliverMonitors(i, a) => monitors'["cards"] = monitors'["table"]]_vars
    /\ [][\A i \in DOMAIN net : \A a \in Arrivals(net[i]) :
            (hasItems(fetchApi(a)) /\ a.keys = {}) =>
                /\ DeliverAlerts(i, a) => \A l \in Layouts : alerts'[l].st = "empty"
                /\ DeliverMonitors(i, a) => \A l \in Layouts : monitors'[l].st = "empty"]_vars

\* The alert list has got a response with items: [] and shows the empty
\* state in both containers.
C20_BothEmpty ==
    /\ path = "index"
    /\ catalog = {}
    /\ \A l \in Layouts : alerts[l].st = "empty"

\* C21: a failure is recoverable.  Whatever a panel shows, the error
\* message included, the response of a request of its feed that succeeded
\* puts it into the populated or the empty state, with every button it
\* draws enabled.  A disabled star awaits its toggle or a reload of its
\* list; the overlay's button, while the overlay shows an alert, is
\* disabled only as long as its own request is awaited, and its response,
\* a failure included, enables it; a button left disabled by a response
\* that came while the overlay was closed is enabled by the next opening
\* of the overlay on an alert.  No response, failed or not, and no
\* exception stops the poller: it runs whenever the page can take its
\* requests.
C21_FailuresRecoverable ==
    /\ [][\A i \in DOMAIN net : \A a \in Arrivals(net[i]) :
            hasItems(fetchApi(a)) =>
                /\ DeliverAlerts(i, a) =>
                      \A l \in Layouts : /\ alerts'[l].st \in {"items", "empty"}
                                         /\ alerts'[l].disabled = {}
                /\ DeliverMonitors(i, a) =>
                      \A l \in Layouts : /\ monitors'[l].st \in {"items", "empty"}
                                         /\ monitors'[l].disabled = {}
                /\ DeliverRecent(i, a) => recent'.st \in {"items", "empty"}]_vars
    /\ [](\A l \in Layouts :
            alerts[l].disabled # {} =>
                \E i \in DOMAIN net : net[i].fn \in {"toggleAOI", "loadAlerts"})
    /\ []((backdrop /\ detailItem # NoItem /\ cta.disabled) =>
            \E i \in DOMAIN net : net[i].fn = "detailCtaClick")
    /\ [][\A i \in DOMAIN net : \A a \in Arrivals(net[i]) :
            (DeliverCta(i, a) /\ detailItem # NoItem) => ~cta'.disabled]_vars
    /\ [][(~backdrop /\ backdrop' /\ detailItem' # NoItem) => ~cta'.disabled]_vars
    /\ [][\A i \in DOMAIN net : \A a \in Arrivals(net[i]) :
            (\/ DeliverAlerts(i, a) \/ DeliverMonitors(i, a) \/ DeliverRecent(i, a)
             \/ DeliverToggle(i, a) \/ DeliverCta(i, a))
                => interval' /\ ~unloaded']_vars
    /\ []((/\ Len(net) + TickRequests <= MaxInflight
           /\ Len(healthCalls) < MaxInflight)
          => ENABLED Tick)

\* A response to the overlay's toggle came while the overlay was closed and
\* line 200 threw; since then the operator has opened the overlay on an
\* alert, whose button is enabled with no toggle awaited, and every star of
\* the alert list is enabled.
C21_ReopenedAfterFailure ==
    /\ uncaught
    /\ backdrop
    /\ detailItem # NoItem
    /\ ~cta.disabled
    /\ \A i \in DOMAIN net : net[i].fn # "detailCtaClick"
    /\ \A l \in Layouts : alerts[l].st = "items" /\ alerts[l].disabled = {}

\* C22: once a sort control has been clicked, the button of the compact
\* layout is shown active exactly when the icon of the table header shows a
\* direction, which is exactly when a sort is in effect.
C22_SortControlsInSync ==
    sortIcon # NoIcon =>
        /\ (mobileSort = "active") <=> sortIcon.lit
        /\ sortIcon.lit <=> (currentSortScore # "")

\* C23: a click on either score-sort control moves currentSortScore one
\* step along NONE, DESC, ASC, NONE and issues the alert request with the
\* new value in the same step.
C23_SortCycles ==
    [][(ClickThScore \/ ClickMobileSort) =>
          /\ currentSortScore' = (IF currentSortScore = "" THEN "desc"
                                  ELSE IF currentSortScore = "desc" THEN "asc" ELSE "")
          /\ Len(net') = Len(net) + 1
          /\ net'[Len(net')].fn = "loadAlerts"
          /\ net'[Len(net')].q.sort_score = currentSortScore']_vars

\* C28: the alert list as rendered is non-increasing in score_total while
\* currentSortScore is desc and non-decreasing while it is asc, in both
\* layouts.
C28_RenderedInSortOrder ==
    \A l \in Layouts :
        alerts[l].st = "items" =>
            \A i, j \in DOMAIN alerts[l].seq :
                i < j =>
                    /\ currentSortScore = "desc"
                         => ScoreTotal[alerts[l].seq[i]] >= ScoreTotal[alerts[l].seq[j]]
                    /\ currentSortScore = "asc"
                         => ScoreTotal[alerts[l].seq[i]] <= ScoreTotal[alerts[l].seq[j]]

\* C24: each of the three close triggers of the detail overlay (the close
\* control, a click on the backdrop outside the region, the Escape key)
\* leaves the backdrop closed, the page scrollable and no detail item held;
\* a click inside the region does not close the overlay; and a close
\* trigger on a closed overlay changes nothing.
C24_CloseRestores ==
    [][/\ (ClickDetailClose \/ ClickBackdrop("backdrop") \/ KeyDown("Escape"))
            => /\ ~backdrop' /\ ~scrollLock' /\ detailItem' = NoItem
               /\ ~backdrop => UNCHANGED vars
       /\ ClickBackdrop("region")
            => /\ backdrop' = backdrop /\ scrollLock' = scrollLock
               /\ detailItem' = detailItem]_vars

\* The overlay has been opened on an alert and closed again.
C24_ClosedAfterOpen ==
    /\ ~unloaded
    /\ cta.mode # "static"
    /\ ~backdrop /\ ~scrollLock /\ detailItem = NoItem

\* C25: a document loaded without a stored credential on a page other than
\* the login page is redirected by the handler's first step, and neither
\* then nor later has it issued a request, loaded a feed or started the
\* poll timer.
C25_GateRedirects ==
    /\ [][(domState = "loading" /\ ~token /\ path # LoginPage)
             => domState' = "redirected"]_vars
    /\ [](domState = "redirected" =>
             /\ net = << >> /\ healthCalls = << >>
             /\ ~interval
             /\ \A l \in Layouts : alerts[l] = StaticView /\ monitors[l] = StaticView
             /\ recent = StaticView
             /\ healthTs = "static" /\ uwBadge = "static")

\* The alert page was loaded without a credential and has been redirected.
C25_RedirectedFromIndex ==
    /\ domState = "redirected"
    /\ path = "index"
    /\ ~token

\* C26: every call of the API client carries the credential that is stored
\* when the call is issued, and none when none is stored; the login request
\* carries none.
C26_CallsCarryStoredCredential ==
    [][/\ Tick =>
            /\ healthCalls'[Len(healthCalls')].auth = token
            /\ \A i \in DOMAIN net' : i > Len(net) => net'[i].auth = token
       /\ SubmitLogin => ~loginForm'.auth]_vars

\* On the login page the credential was written by a login between two
\* runs of updateHealth: the earlier run went out without a credential, the
\* later one carries it.
C26_CallAfterLogin ==
    /\ path = LoginPage
    /\ token /\ homeNav = 1 /\ ~loginForm.auth
    /\ Len(healthCalls) = 2
    /\ ~healthCalls[1].auth /\ healthCalls[2].auth

\* C27: the credential is created only by a login response with ok and a
\* token, together with the navigation to the main view, and destroyed only
\* by logout(), run by the logout button or by a rejected call; a login that
\* fails leaves the credential as it was, shows a message, enables the
\* submit button again and leaves no login request pending.
C27_SessionLifecycle ==
    [][/\ (~token /\ token') =>
            \E a \in LoginArrivals :
                /\ DeliverLogin(a)
                /\ a.o.net = "ok" /\ a.o.json /\ a.grant
                /\ homeNav' = homeNav + 1
       /\ (token /\ ~token') =>
            \/ ClickLogout
            \/ \E j \in DOMAIN healthCalls : \E part \in HealthParts :
                  \E a \in HealthArrivals(healthCalls[j]) :
                      a.o.status = 401 /\ ResolveHealth(j, part, a)
            \/ \E i \in DOMAIN net : \E a \in Arrivals(net[i]) :
                  a.kind = "401" /\ DeliverAlerts(i, a)
       /\ \A a \in LoginArrivals :
            (DeliverLogin(a) /\ ~(a.o.net = "ok" /\ a.o.json /\ a.grant)) =>
                /\ token' = token
                /\ homeNav' = homeNav
                /\ loginForm'.error # "none"
                /\ loginForm'.btn = "enabled"
                /\ ~loginForm'.pending]_vars

\* A login was refused: the message is shown, the button is enabled again
\* and no credential is stored.
C27_LoginRefused ==
    /\ path = LoginPage
    /\ ~token
    /\ loginForm = [btn |-> "enabled", pending |-> FALSE, error |-> "invalid", auth |-> FALSE]

\* C29: for an item whose open interest is present and not zero, whatever
\* its volume, zero included, every renderer shows volume / open interest
\* to one decimal place; for an item whose open interest is zero or absent
\* every renderer shows the no-data marker.
C29_VolOIShown ==
    \A r \in {"card", "row", "detail", "tableOnly"} :
        shown[r] # NotShown =>
            /\ (item.oi # Absent /\ item.oi # 0 /\ item.volume # Absent)
                  => shown[r] = [kind |-> "ratio",
                                 tenths |-> (20 * item.volume + item.oi) \div (2 * item.oi)]
            /\ (item.oi = Absent \/ item.oi = 0) => shown[r] = NoData

\* C30: for a score_history of n >= 1 samples the list of the detail
\* overlay holds the last min(n, 10) samples, the latest first, and the
\* chart goes through the last min(n, 40) samples in the order they were
\* taken, the latest last.
C30_TrendShown ==
    LET h == item.score_history
        n == Len(h)
        list == shown.trend.list
        chart == shown.trend.chart
    IN  (shown.opened /\ n >= 1) =>
            /\ Len(list) = (IF n < 10 THEN n ELSE 10)
            /\ \A i \in DOMAIN list : list[i] = h[n + 1 - i]
            /\ Len(chart) = (IF n < 40 THEN n ELSE 40)
            /\ \A i \in DOMAIN chart : chart[i] = h[n - Len(chart) + i]

\* C36: a click on a type button leaves that button the only one marked
\* active, makes its type the value of currentTypeFilter and issues in the
\* same step an alert request that carries that type, none for the button
\* of all types; so once a type button has been clicked exactly one button
\* is active and the value is its type.
C36_TypeFilterExclusive ==
    /\ [](typeActive # {} => typeActive = {currentTypeFilter})
    /\ [][\A btn \in TypeButtons :
            ClickType(btn) =>
                /\ typeActive' = {btn}
                /\ currentTypeFilter' = btn
                /\ Len(net') = Len(net) + 1
                /\ net'[Len(net')].fn = "loadAlerts"
                /\ net'[Len(net')].q.type = btn
                /\ \A l \in Layouts : alerts'[l].st = "loading"]_vars

\* The operator has chosen puts after calls: the request for puts is
\* awaited behind the one for calls.
C36_SecondTypeChosen ==
    /\ currentTypeFilter = "P"
    /\ typeActive = {"P"}
    /\ Len(net) = 2
    /\ net[1].q.type = "C" /\ net[2].q.type = "P"

\* C31: no renderer changes score_history: after the sparkline of a card
\* or a row and after the detail overlay with its chart and its list of
\* the last ticks, the item's history has the length, the samples and the
\* order it had; the chart and the inline sparklines go through at most 40
\* of its trailing samples and the list holds at most 10 of them.
C31_HistoryKept ==
    /\ [][(RenderTrend \/ \E l \in Layouts : RenderInline(l))
            => item'.score_history = item.score_history]_vars
    /\ [](LET h == item.score_history
              Trailing(w) == /\ Len(w) <= Len(h)
                             /\ \A i \in DOMAIN w : w[i] = h[Len(h) - Len(w) + i]
          IN  /\ shown.opened =>
                    /\ Len(shown.trend.chart) <= 40 /\ Trailing(shown.trend.chart)
                    /\ Len(shown.trend.list) <= 10
                    /\ Trailing(Reverse(shown.trend.list))
              /\ \A l \in Layouts :
                    shown.inline[l].drawn =>
                        /\ Len(shown.inline[l].points) <= 40
                        /\ Trailing(shown.inline[l].points))

\* A history longer than the chart's window has been drawn in the card, in
\* the row and in the detail overlay, and still starts with its first
\* sample and ends with its last.
C31_LongHistoryDrawn ==
    /\ Len(item.score_history) > SparkPoints
    /\ shown.opened
    /\ Len(shown.trend.chart) = SparkPoints
    /\ Len(shown.trend.list) = ListTicks
    /\ \A l \in Layouts : shown.inline[l].drawn /\ Len(shown.inline[l].points) = SparkPoints
    /\ item.score_history[1] = 1
    /\ item.score_history[Len(item.score_history)] = Len(item.score_history)

\* C32: in the card, the row, the detail overlay and the table-only row the
\* labels shown are, white space around them aside, the item's entries in
\* their order without the empty ones, and no label shown is empty, not
\* even for an entry of white space only.
C32_NoEmptyLabel ==
    \A r \in {"card", "row", "detail", "tableOnly"} :
        shown[r] # NotShown =>
            /\ \A i \in DOMAIN shown.tags[r] : trim(shown.tags[r][i]) # ""
            /\ [i \in DOMAIN shown.tags[r] |-> trim(shown.tags[r][i])] =
                  [i \in DOMAIN SelectSeq(item.tags, LAMBDA t : trim(t) # "") |->
                      trim(SelectSeq(item.tags, LAMBDA t : trim(t) # "")[i])]

\* The severity a class of the score chip stands for.
Severity(cls) ==
    IF cls \in {"chip-green", "bg-emerald-500/20"} THEN "high"
    ELSE IF cls = "chip-yellow" THEN "medium"
    ELSE "neutral"

\* C33: wherever a score chip is shown its severity is high exactly for a
\* score of 85 or more, medium exactly for a score from 60 up to but not
\* including 85, and neutral for any other score and for no score.
C33_SeverityBuckets ==
    \A r \in {"card", "row", "detail", "tableOnly"} :
        (shown[r] # NotShown /\ shown.chip[r] # "none") =>
            Severity(shown.chip[r]) =
                (IF item.score_total # Absent /\ item.score_total >= 85 THEN "high"
                 ELSE IF item.score_total # Absent /\ item.score_total >= 60 THEN "medium"
                 ELSE "neutral")

\* C34: the response to a toggle issued from the overlay for one item
\* changes nothing of another item: when the overlay holds a different item
\* at the time the response is handled, that item's is_aoi value and the
\* button shown for it stay as they were.
C34_ResponseOnlyForItsItem ==
    [][\A i \in DOMAIN net : \A a \in Arrivals(net[i]) :
          (DeliverCta(i, a) /\ detailItem # NoItem /\ detailItem.key # net[i].ck)
              => /\ detailItem'.aoi = detailItem.aoi
                 /\ cta' = cta]_vars

\* C35: handling a feed response, of the alerts, the monitors or the recent
\* alerts, of a foreground or a background load, leaves the overlay open or
\* closed as it was, the held item with its key and is_aoi value and the
\* overlay's button as they were, and the type filter and the score sort as
\* they were.
C35_FeedLeavesOverlayAndFilter ==
    [][\A i \in DOMAIN net : \A a \in Arrivals(net[i]) :
          (DeliverAlerts(i, a) \/ DeliverMonitors(i, a) \/ DeliverRecent(i, a))
              => /\ backdrop' = backdrop /\ scrollLock' = scrollLock
                 /\ detailItem'.key = detailItem.key /\ detailItem'.aoi = detailItem.aoi
                 /\ cta' = cta
                 /\ currentTypeFilter' = currentTypeFilter
                 /\ currentSortScore' = currentSortScore
                 /\ typeActive' = typeActive
                 /\ sortIcon' = sortIcon /\ mobileSort' = mobileSort]_vars

\* Under an open overlay that holds an alert, with a type and a sort
\* chosen, a background refresh of the alerts has been rendered.
C35_RefreshedUnderOverlay ==
    /\ backdrop /\ scrollLock
    /\ detailItem.key = "A" /\ detailItem.live = "none"
    /\ cta.mode # "static"
    /\ currentTypeFilter # "" /\ currentSortScore # ""
    /\ \A l \in Layouts : alerts[l].st = "items"
    /\ net = << >>

====
